---------------------------- MODULE Spec2Model ----------------------------
(***************************************************************************)
(* Model of the hybrid ranking engine of src/modules/hybrid_search.py      *)
(* (class HybridSearchEngine) together with the part of                    *)
(* src/modules/vector_store.py it calls, and of ConversationBuffer          *)
(* (src/modules/conversation_buffer.py).                                   *)
(*                                                                         *)
(* Texts are sequences of one-character strings, so that lowercasing,      *)
(* the word-run tokenizer and the substring tests of the fallback          *)
(* analysis are computed, not assumed.                                     *)
(*                                                                         *)
(* Scores are fixed-point integers: one unit of a lexical or semantic      *)
(* score is 1/10000, one unit of a weight is 1/10, hence one  *)
(* unit of a combined score is 1/100000.                                   *)
(***************************************************************************)
EXTENDS Integers, Sequences, FiniteSets, TLC

(***************************************************************************)
(* Bounds of the model.                                                    *)
(***************************************************************************)
MaxDocs == 3      \* longest document list handed to build_index
MaxTopK == 2      \* largest top_k handed to a search

(***************************************************************************)
(* Characters and texts.                                                   *)
(***************************************************************************)
LowerLetters ==
  {"a","b","c","d","e","f","g","h","i","j","k","l","m","n","o","p","q","r",
   "s","t","u","v","w","x","y","z"}

\* str.lower() on one character: the upper-case letters map to lower case,
\* every other character is unchanged.
UpperToLower ==
  ("A" :> "a") @@ ("B" :> "b") @@ ("C" :> "c") @@ ("D" :> "d") @@ ("E" :> "e") @@
  ("F" :> "f") @@ ("G" :> "g") @@ ("H" :> "h") @@ ("I" :> "i") @@ ("J" :> "j") @@
  ("K" :> "k") @@ ("L" :> "l") @@ ("M" :> "m") @@ ("N" :> "n") @@ ("O" :> "o") @@
  ("P" :> "p") @@ ("Q" :> "q") @@ ("R" :> "r") @@ ("S" :> "s") @@ ("T" :> "t") @@
  ("U" :> "u") @@ ("V" :> "v") @@ ("W" :> "w") @@ ("X" :> "x") @@ ("Y" :> "y") @@
  ("Z" :> "z")

LowerChar(c) == IF c \in DOMAIN UpperToLower THEN UpperToLower[c] ELSE c

\* text.lower()
Lower(text) == [i \in 1..Len(text) |-> LowerChar(text[i])]

\* \w of the regular expression, on the characters the model uses
IsWordChar(c) ==
  \/ c \in LowerLetters
  \/ c \in DOMAIN UpperToLower
  \/ c \in {"0","1","2","3","4","5","6","7","8","9","_"}

\* re.findall(r'\b\w+\b', s): the maximal runs of word characters of s, in
\* text order.  cur is the run being read at position i.
RECURSIVE FindWordRuns(_, _, _)
FindWordRuns(s, i, cur) ==
  IF i > Len(s)
    THEN (IF cur = <<>> THEN <<>> ELSE <<cur>>)
    ELSE IF IsWordChar(s[i])
           THEN FindWordRuns(s, i + 1, Append(cur, s[i]))
           ELSE (IF cur = <<>> THEN <<>> ELSE <<cur>>) \o FindWordRuns(s, i + 1, <<>>)

\* the filter written with >= 2
_tokenize_two_characters(text) ==
  SelectSeq(FindWordRuns(Lower(text), 1, <<>>), LAMBDA token : Len(token) >= 2)

\* _tokenize: the runs of the lowercased text that are longer than 2
_tokenize(text) ==
  SelectSeq(FindWordRuns(Lower(text), 1, <<>>), LAMBDA token : Len(token) > 2)

\* Python's `word in s` for strings: word occurs as a substring of s
InStr(word, s) ==
  \E i \in 1..(Len(s) - Len(word) + 1) : SubSeq(s, i, i + Len(word) - 1) = word

(***************************************************************************)
(* The texts the model draws documents and queries from.                   *)
(***************************************************************************)
Dcat   == <<"T","h","e"," ","c","a","t"," ","s","a","t"," ","o","n"," ","t","h","e"," ","m","a","t",".">>
Ddog   == <<"D","o","g","s"," ","a","r","e"," ","l","o","y","a","l"," ","c","o","m","p","a","n","i","o","n","s",".">>
Dpets  == <<"C","a","t","s"," ","a","n","d"," ","d","o","g","s"," ","a","r","e"," ","c","o","m","m","o","n"," ","p","e","t","s",".">>
Dstop  == <<"T","h","e"," ","a","n","d",".">>
\* a text without a word of more than two characters
Dshort == <<"I","t"," ","i","s",".">>

DocPool == {Dcat, Ddog, Dpets, Dstop}

Qcat      == <<"c","a","t">>
QcatLoyal == <<"c","a","t"," ","l","o","y","a","l">>
Qwhat     == <<"W","h","a","t"," ","i","s"," ","a"," ","l","o","y","a","l"," ","c","o","m","p","a","n","i","o","n","?">>
Qshow     == <<"s","h","o","w"," ","c","a","t","s">>
QhowDef   == <<"H","o","w"," ","t","o"," ","d","e","f","i","n","e"," ","c","a","t">>
Qsteps    == <<"S","t","e","p","s",":"," ","c","a","t",","," ","d","o","g","s",","," ","p","e","t","s">>
Qempty    == <<>>

QueryPool == {Qcat, QcatLoyal, Qwhat, Qshow, QhowDef, Qsteps, Qempty}

\* a function over a finite set of inputs, evaluated once as a table
Tabulated(f) == f @@ <<>>

\* _tokenize on the texts of the model
TokenTable == Tabulated([text \in DocPool \cup {Dshort} \cup QueryPool |-> _tokenize(text)])

\* every document list of at most MaxDocs documents
Corpora == UNION {[1..n -> DocPool] : n \in 0..MaxDocs}

\* the three documents of the scenario, and the shorter lists of a text
\* with tokens and a text without
RebuildCorpora ==
  {<<Dcat, Ddog, Dpets>>} \cup UNION {[1..n -> {Dcat, Dshort}] : n \in 0..(MaxDocs - 1)}

TopKs == 0..MaxTopK

\* the ids a caller hands to build_index for its n documents
CallerIdNames == <<"d0", "d1", "d2", "d3", "d4", "d5">>
GivenIds(n) == SubSeq(CallerIdNames, 1, n)

\* [f"doc_{i}" for i in range(n)]
DefaultIdNames == <<"doc_0", "doc_1", "doc_2", "doc_3", "doc_4", "doc_5">>
DefaultIds(n) == SubSeq(DefaultIdNames, 1, n)

\* An optional value (Python's None or an object) is a sequence of length
\* 0 or 1.
None == <<>>
Some(x) == <<x>>

(***************************************************************************)
(* Arithmetic helpers.                                                     *)
(***************************************************************************)
Min(a, b) == IF a <= b THEN a ELSE b

RECURSIVE SumSeq(_)
SumSeq(s) == IF s = <<>> THEN 0 ELSE Head(s) + SumSeq(Tail(s))

RECURSIVE SumOver(_, _)
SumOver(f, S) ==
  IF S = {} THEN 0
  ELSE LET x == CHOOSE y \in S : TRUE IN f[x] + SumOver(f, S \ {x})

SeqToSet(s) == {s[i] : i \in 1..Len(s)}

(***************************************************************************)
(* rank_bm25.BM25Okapi, as constructed at build_index and queried at       *)
(* bm25_search (library defaults k1 = 1.5, b = 0.75, epsilon = 0.25).      *)
(***************************************************************************)
\* 10000 * (ln(N - n + 0.5) - ln(n + 0.5)) rounded, for a corpus of N
\* documents and a word found in n of them: LogIdf[N][n]
LogIdf ==
  << <<-10986>>,
     <<0, -16094>>,
     <<5108, -5108, -19459>>,
     <<8473, 0, -8473, -21972>>,
     <<10986, 3365, -3365, -10986, -23979>>,
     <<12993, 5878, 0, -5878, -12993, -25649>> >>

\* BM25Okapi(tokenized_docs): <<>> when the constructor raises
\* ZeroDivisionError (avgdl of an empty corpus, average idf of an empty
\* vocabulary), else <<index>>.
BM25Okapi(corpus) ==
  LET N        == Len(corpus)
      doc_len  == [i \in 1..N |-> Len(corpus[i])] \o <<>>
      words    == UNION {SeqToSet(corpus[i]) : i \in 1..N}
      \* nd: the number of documents that contain the word
      raw_idf  == [w \in words |->
                     LogIdf[N][Cardinality({i \in 1..N : w \in SeqToSet(corpus[i])})]]
      \* eps = epsilon * average_idf = 0.25 * idf_sum / len(idf)
      eps      == SumOver(raw_idf, words) \div (4 * Cardinality(words))
  IN  IF N = 0 \/ words = {}
        THEN None
        ELSE Some([corpus_size |-> N,
                   total_len   |-> SumSeq(doc_len),
                   doc_len     |-> doc_len,
                   doc_freqs   |-> [i \in 1..N |->
                                     [w \in SeqToSet(corpus[i]) |->
                                        Cardinality({p \in 1..Len(corpus[i]) : corpus[i][p] = w})]],
                   idf         |-> [w \in words |->
                                     IF raw_idf[w] < 0 THEN eps ELSE raw_idf[w]]])

\* One query term's contribution to one document's score:
\*   idf * tf * (k1 + 1) / (tf + k1 * (1 - b + b * dl / avgdl))
\* with avgdl = total_len / corpus_size; numerator and denominator are
\* both multiplied by 8 * total_len.
BM25Term(index, q, d) ==
  LET tf  == IF q \in DOMAIN index.doc_freqs[d] THEN index.doc_freqs[d][q] ELSE 0
      idf == IF q \in DOMAIN index.idf THEN index.idf[q] ELSE 0
      T   == index.total_len
  IN  (idf * 20 * tf * T)
        \div (8 * tf * T + 3 * T + 9 * index.doc_len[d] * index.corpus_size)

\* get_scores(tokenized_query): the sum of the terms over the query tokens
\* (a token repeated in the query counts each time)
get_scores(index, tokenized_query) ==
  [d \in 1..index.corpus_size |->
     SumSeq([p \in 1..Len(tokenized_query) |-> BM25Term(index, tokenized_query[p], d)])]


(***************************************************************************)
(* sklearn's TfidfVectorizer(stop_words='english', ngram_range=(1, 2)).    *)
(***************************************************************************)
\* the words of sklearn's English stop word list that occur in the texts
EnglishStopWords ==
  { <<"t","h","e">>, <<"o","n">>, <<"a","r","e">>, <<"a","n","d">>,
    <<"i","s">>, <<"i","t">>, <<"s","o">>, <<"t","o">> }

\* the analyzer of the vectorizer: lowercase, token_pattern \b\w\w+\b,
\* stop words removed
TfidfTokens(doc) ==
  SelectSeq(FindWordRuns(Lower(doc), 1, <<>>),
            LAMBDA token : Len(token) >= 2 /\ token \notin EnglishStopWords)

\* fit_transform(documents): <<>> when it raises ValueError (empty
\* vocabulary), else <<the fitted vocabulary of unigrams and bigrams>>
fit_transform(docs) ==
  LET toks == [i \in 1..Len(docs) |-> TfidfTokens(docs[i])]
      vocabulary ==
        UNION { {<<toks[i][p]>> : p \in 1..Len(toks[i])}
                  \cup {<<toks[i][p], toks[i][p + 1]>> : p \in 1..(Len(toks[i]) - 1)}
                : i \in 1..Len(docs) }
  IN  IF vocabulary = {} THEN None ELSE Some(vocabulary)

(***************************************************************************)
(* State of the engine and of the call in progress.                        *)
(***************************************************************************)
VARIABLES
  bm25_index,     \* self.bm25_index: None or the BM25Okapi object
  documents,      \* self.documents
  document_ids,   \* self.document_ids
  tfidf_matrix,   \* self.tfidf_matrix: absent (None) until a fit succeeds
  argsort_ties,   \* how this build's np.argsort orders equal scores
  api_key_set,    \* client.api_key is a non-empty string
  collection,     \* the chunks held by vector_store.collection
  last,           \* the call that has just returned or raised, for its caller
  llm_call,       \* the call that waits for client.chat.completions.create
  max_history,    \* conversation_buffer.max_history
  conversations,  \* conversation_buffer.conversations
  clock,          \* the number of interactions recorded so far
  tasks,          \* build_index and bm25_search running on two threads
  limiter,        \* RateLimiter: its requests, its lock, the calling threads
  chunker         \* DocumentProcessor.chunk_text: the call and its loop variables

vars == <<bm25_index, documents, document_ids, tfidf_matrix,
          argsort_ties, api_key_set, collection, last,
          llm_call, max_history, conversations, clock,
          tasks, limiter, chunker>>

engine == <<bm25_index, documents, document_ids, tfidf_matrix>>

env == <<argsort_ties, api_key_set, collection>>

\* the conversation buffer
buffer == <<max_history, conversations, clock>>

\* the threads of the concurrent runs, the rate limiter and the chunker
workers == <<tasks, limiter, chunker>>

\* everything but the engine, its environment and the call just ended
rest == <<llm_call, buffer, workers>>

NoCall == [op |-> "none", args |-> <<>>, raised |-> "none", value |-> <<>>]

Outcome(op, args, raised, value) ==
  [op |-> op, args |-> args, raised |-> raised, value |-> value]

\* the caller makes one call at a time
Idle == last.op = "none"

\* np.argsort's default sort is not stable: equal scores come out in index
\* order (small-array insertion sort) or in another order, fixed per build
ArgsortTies == {"index_order", "reverse_index_order"}

(***************************************************************************)
(* np.argsort(scores)[::-1][:top_k]                                        *)
(***************************************************************************)
\* i comes before j in the ascending argsort
ArgsortBefore(scores, ties, i, j) ==
  \/ scores[i] < scores[j]
  \/ /\ scores[i] = scores[j]
     /\ IF ties = "index_order" THEN i < j ELSE i > j

argsort(scores, ties) ==
  LET N == Len(scores)
      pos(i) == 1 + Cardinality({j \in 1..N : ArgsortBefore(scores, ties, j, i)})
  IN  [p \in 1..N |-> CHOOSE i \in 1..N : pos(i) = p]

\* the [::-1] left out
Reverse_missing(s) == s

\* s[::-1]
Reverse(s) == [p \in 1..Len(s) |-> s[Len(s) + 1 - p]]

\* the slice left out
TopK_all(s, top_k) == s

\* s[:top_k] for top_k >= 0
TopK(s, top_k) == SubSeq(s, 1, Min(top_k, Len(s)))

top_indices(scores, ties, top_k) == TopK(Reverse(argsort(scores, ties)), top_k)

(***************************************************************************)
(* The embedding index: chunks as VectorStore.add_document stores them.    *)
(***************************************************************************)
Chunk(filename, chunk_id, text) ==
  [document |-> text, metadata |-> [filename |-> filename, chunk_id |-> chunk_id]]

\* a persisted collection found at start-up: two chunks of a.pdf, one of b.pdf
StoredChunks ==
  { Chunk("a.pdf", 0, Dcat), Chunk("a.pdf", 1, Ddog), Chunk("b.pdf", 0, Dpets) }

InitialCollections == { {}, StoredChunks }

(***************************************************************************)
(* What runs beside the sequential calls, before anything has started.     *)
(***************************************************************************)
\* no build_index and no bm25_search is running on a thread of its own
NoTasks == [build |-> None, search |-> None]

\* RateLimiter.__init__: no request recorded, the lock free; no thread is
\* inside is_allowed, no call has returned, the clock reads 0
NewLimiter ==
  [requests |-> <<>>, lock |-> None, calls |-> <<>>, returned |-> <<>>, time |-> 0]

\* no chunk_text call is running
NoChunking == [pc |-> "idle"]

(***************************************************************************)
(* ConversationBuffer.__init__(max_history)                                *)
(***************************************************************************)
\* the default of the parameter, used by the module's global instance
DefaultMaxHistory == 10

BufferInit(history) ==
  /\ max_history = history
  /\ conversations = <<>>
  /\ clock = 0

(***************************************************************************)
(* HybridSearchEngine.__init__, and what the import of the module finds    *)
(***************************************************************************)
EngineInit ==
  /\ bm25_index = None
  /\ documents = <<>>
  /\ document_ids = <<>>
  /\ tfidf_matrix = None
  /\ argsort_ties \in ArgsortTies
  /\ last = NoCall
  /\ llm_call = None
  /\ tasks = NoTasks
  /\ limiter = NewLimiter
  /\ chunker = NoChunking

\* a fresh deployment: no API key, nothing stored
Init ==
  /\ EngineInit
  /\ api_key_set = FALSE
  /\ collection = {}
  /\ BufferInit(DefaultMaxHistory)

\* any deployment: OPENAI_API_KEY set or empty, a persisted collection or none
InitHybrid ==
  /\ EngineInit
  /\ api_key_set \in BOOLEAN
  /\ collection \in InitialCollections
  /\ BufferInit(DefaultMaxHistory)

(***************************************************************************)
(* build_index(documents, document_ids)                                    *)
(***************************************************************************)
\* `document_ids or [f"doc_{i}" ...]`: None and the empty list both give
\* the default ids
IdsOrDefault(ids_arg, n) ==
  IF ids_arg = None \/ ids_arg[1] = <<>> THEN DefaultIds(n) ELSE ids_arg[1]

\* lines 52-53 and line 56 for every document list of the model
IndexTable ==
  Tabulated([docs \in Corpora \cup RebuildCorpora |->
               BM25Okapi([i \in 1..Len(docs) |-> TokenTable[docs[i]]] \o <<>>)])

MatrixTable == Tabulated([docs \in Corpora \cup RebuildCorpora |-> fit_transform(docs)])

build_index(docs, ids_arg) ==
  LET index  == IndexTable[docs]
      matrix == MatrixTable[docs]
      args   == [documents |-> docs, document_ids |-> ids_arg]
  IN  /\ documents' = docs
      /\ document_ids' = IdsOrDefault(ids_arg, Len(docs))
      /\ IF index = None
           THEN \* BM25Okapi raised: nothing after line 53 runs
                /\ UNCHANGED <<bm25_index, tfidf_matrix>>
                /\ last' = Outcome("build_index", args, "ZeroDivisionError", <<>>)
           ELSE /\ bm25_index' = index
                /\ IF matrix = None
                     THEN /\ UNCHANGED tfidf_matrix
                          /\ last' = Outcome("build_index", args, "ValueError", <<>>)
                     ELSE /\ tfidf_matrix' = matrix
                          /\ last' = Outcome("build_index", args, "none", <<>>)
      /\ UNCHANGED <<env, rest>>

(***************************************************************************)
(* bm25_search(query, top_k)                                               *)
(***************************************************************************)
KeywordResult(docs, ids, scores, idx) ==
  [document |-> docs[idx], document_id |-> ids[idx],
   score |-> scores[idx], search_type |-> "keyword"]

\* the test of line 156 written with >=
IsRelevant_nonnegative(score) == score >= 0

\* line 156: only include relevant results
IsRelevant(score) == score > 0

\* The result of bm25_search on the given engine state: a record
\* [raised, value].  The loop raises IndexError at the first selected
\* index with a positive score that documents or document_ids does not have.
bm25_search(index_opt, docs, ids, ties, query, top_k) ==
  IF index_opt = None
    THEN [raised |-> "none", value |-> <<>>]
    ELSE LET index   == index_opt[1]
             scores  == get_scores(index, TokenTable[query]) \o <<>>
             top     == top_indices(scores, ties, top_k)
             hits    == SelectSeq(top, LAMBDA idx : IsRelevant(scores[idx]))
         IN  IF \E p \in 1..Len(hits) : hits[p] > Len(docs) \/ hits[p] > Len(ids)
               THEN [raised |-> "IndexError", value |-> <<>>]
               ELSE [raised |-> "none",
                     value |-> [p \in 1..Len(hits) |->
                                  KeywordResult(docs, ids, scores, hits[p])]]

\* a search that draws the order of equal scores anew
Bm25Search_reseeding(query, top_k) ==
  LET r == bm25_search(bm25_index, documents, document_ids, argsort_ties, query, top_k)
  IN  /\ last' = Outcome("bm25_search", [query |-> query, top_k |-> top_k],
                         r.raised, r.value)
      /\ argsort_ties' \in ArgsortTies
      /\ UNCHANGED <<engine, api_key_set, collection, rest>>

Bm25Search(query, top_k) ==
  LET r == bm25_search(bm25_index, documents, document_ids, argsort_ties, query, top_k)
  IN  /\ last' = Outcome("bm25_search", [query |-> query, top_k |-> top_k],
                         r.raised, r.value)
      /\ UNCHANGED <<engine, env, rest>>

(***************************************************************************)
(* Query analysis.  A weight is a number of tenths.  A dictionary key      *)
(* that may be missing holds an optional value.                            *)
(***************************************************************************)
Weights(semantic, keyword) == [semantic |-> semantic, keyword |-> keyword]

Dict(intent, keywords, search_weights, query_type) ==
  [type |-> "dict", intent |-> intent, keywords |-> keywords,
   search_weights |-> search_weights, query_type |-> query_type]

W_what       == <<"w","h","a","t">>
W_define     == <<"d","e","f","i","n","e">>
W_definition == <<"d","e","f","i","n","i","t","i","o","n">>
W_how        == <<"h","o","w">>
W_process    == <<"p","r","o","c","e","s","s">>
W_steps      == <<"s","t","e","p","s">>

\* the two keyword rules tried in the other order
_simple_query_analysis_how_first(query) ==
  LET keywords == TokenTable[query]
      lowered  == Lower(query) \o <<>>
      query_type == IF Len(keywords) <= 3 THEN "specific" ELSE "general"
  IN  IF \E word \in {W_how, W_process, W_steps} : InStr(word, lowered)
        THEN Dict(Some("how_to"), keywords, Some(Weights(Some(8), Some(2))), query_type)
      ELSE IF \E word \in {W_what, W_define, W_definition} : InStr(word, lowered)
        THEN Dict(Some("definition"), keywords, Some(Weights(Some(6), Some(4))), query_type)
      ELSE Dict(Some("factual"), keywords, Some(Weights(Some(7), Some(3))), query_type)

\* _simple_query_analysis(query)
_simple_query_analysis(query) ==
  LET keywords == TokenTable[query]
      lowered  == Lower(query) \o <<>>
      query_type == IF Len(keywords) <= 3 THEN "specific" ELSE "general"
  IN  IF \E word \in {W_what, W_define, W_definition} : InStr(word, lowered)
        THEN Dict(Some("definition"), keywords, Some(Weights(Some(6), Some(4))), query_type)
      ELSE IF \E word \in {W_how, W_process, W_steps} : InStr(word, lowered)
        THEN Dict(Some("how_to"), keywords, Some(Weights(Some(8), Some(2))), query_type)
      ELSE Dict(Some("factual"), keywords, Some(Weights(Some(7), Some(3))), query_type)

FallbackTable == Tabulated([query \in QueryPool |-> _simple_query_analysis(query)])

\* What json.loads can hand back for the content of an LLM answer.
JsonFull       == Dict(Some("comparison"), <<>>, Some(Weights(Some(5), Some(5))), "general")
JsonHeavy      == Dict(Some("conceptual"), <<>>, Some(Weights(Some(9), Some(3))), "specific")
JsonBadIntent  == Dict(Some("navigational"), <<>>, Some(Weights(Some(7), Some(3))), "specific")
JsonNoWeights  == Dict(Some("definition"), <<>>, None, "specific")
JsonNoKeyword  == Dict(Some("factual"), <<>>, Some(Weights(Some(7), None)), "specific")
JsonList       == [type |-> "list", intent |-> None, keywords |-> <<>>,
                   search_weights |-> None, query_type |-> ""]

\* How the LLM backend answers the request of lines 94-102: the request
\* fails, it times out, the content is not JSON, or the content is JSON.
LLMOutcomes ==
  { [kind |-> "error", json |-> JsonList],
    [kind |-> "timeout", json |-> JsonList],
    [kind |-> "unparsable", json |-> JsonList] }
  \cup { [kind |-> "json", json |-> j] :
           j \in {JsonFull, JsonHeavy, JsonBadIntent, JsonNoWeights, JsonNoKeyword, JsonList} }

\* the LLM is not called when no key is configured
LLMNotCalled == [kind |-> "not_called", json |-> JsonList]

\* the body of the try statement, lines 83-106: a record [raised, value]
LLMAnalysis(llm) ==
  CASE llm.kind = "error"      -> [raised |-> "APIConnectionError", value |-> JsonList]
    [] llm.kind = "timeout"    -> [raised |-> "APITimeoutError", value |-> JsonList]
    [] llm.kind = "unparsable" -> [raised |-> "JSONDecodeError", value |-> JsonList]
    [] OTHER                   -> [raised |-> "none", value |-> llm.json]

\* a handler for parse errors only
Catches_parse_errors(exception) == exception = "JSONDecodeError"

\* line 108: `except Exception` catches every exception the body raises
Catches(exception) == TRUE

\* analyze_query(query), given how the LLM answers: a record [raised, value]
analyze_query(key_set, query, llm) ==
  IF ~key_set
    THEN [raised |-> "none", value |-> FallbackTable[query]]
    ELSE LET body == LLMAnalysis(llm)
         IN  IF body.raised = "none" THEN body
             ELSE IF Catches(body.raised)
               THEN [raised |-> "none", value |-> FallbackTable[query]]
               ELSE body

AnalyzeQuery(query, llm) ==
  LET r == analyze_query(api_key_set, query, llm)
  IN  /\ last' = Outcome("analyze_query", [query |-> query, llm |-> llm],
                         r.raised, r.value)
      /\ UNCHANGED <<engine, env, rest>>

(***************************************************************************)
(* vector_store.query_similar_chunks and vector_search                     *)
(***************************************************************************)
\* distances the embedding index reports, in units of 1/10000
DistancePool == {2000, 15000}

ChromaRaises == [raised |-> TRUE, documents |-> <<>>, metadatas |-> <<>>, distances |-> <<>>]

\* What collection.query(query_texts, n_results, where) can do: raise
\* (store unreachable, n_results not positive), or return the columns of
\* min(n_results, matching chunks) distinct chunks, nearest first.
ChromaOutcomes(coll, n_results, filename) ==
  LET matching == IF filename = None THEN coll
                  ELSE {c \in coll : c.metadata.filename = filename[1]}
      m == Min(n_results, Cardinality(matching))
  IN  {ChromaRaises} \cup
      IF n_results <= 0 THEN {}
      ELSE { [raised    |-> FALSE,
              documents |-> [i \in 1..m |-> hits[i][1].document],
              metadatas |-> [i \in 1..m |-> hits[i][1].metadata],
              distances |-> [i \in 1..m |-> hits[i][2]]] :
             hits \in { h \in [1..m -> matching \X DistancePool] :
                          /\ \A i, j \in 1..m : i < j => h[i][1] # h[j][1]
                          /\ \A i, j \in 1..m : i < j => h[i][2] <= h[j][2] } }

Filenames == {None, Some("a.pdf")}

ChromaTable ==
  Tabulated([x \in InitialCollections \X (0..(2 * MaxTopK)) \X Filenames |->
               ChromaOutcomes(x[1], x[2], x[3])])

\* VectorStore.query_similar_chunks, given what collection.query does
query_similar_chunks(chroma) ==
  IF chroma.raised
    THEN <<>>
    ELSE [i \in 1..Len(chroma.documents) |->
            [document |-> chroma.documents[i],
             metadata |-> chroma.metadatas[i],
             distance |-> chroma.distances[i]]]

\* the score cut off at 0
Similarity_clamped(distance) == IF distance > 10000 THEN 0 ELSE 10000 - distance

\* line 186: 1.0 - distance
Similarity(distance) == 10000 - distance

\* vector_search: one result per hit, in the order of the hits
vector_search(chroma) ==
  LET results == query_similar_chunks(chroma)
  IN  [i \in 1..Len(results) |->
         [document    |-> results[i].document,
          document_id |-> results[i].metadata.filename,
          score       |-> Similarity(results[i].distance),
          search_type |-> "semantic"]] \o <<>>

\* a semantic search that keeps the texts it found as the engine's documents
VectorSearch_retaining(query, top_k, filename, chroma) ==
  /\ last' = Outcome("vector_search",
                     [query |-> query, top_k |-> top_k, filename |-> filename,
                      chroma |-> chroma],
                     "none", vector_search(chroma))
  /\ documents' = [i \in 1..Len(vector_search(chroma)) |-> vector_search(chroma)[i].document] \o <<>>
  /\ UNCHANGED <<bm25_index, document_ids, tfidf_matrix, env, rest>>

VectorSearch(query, top_k, filename, chroma) ==
  /\ last' = Outcome("vector_search",
                     [query |-> query, top_k |-> top_k, filename |-> filename,
                      chroma |-> chroma],
                     "none", vector_search(chroma))
  /\ UNCHANGED <<engine, env, rest>>

(***************************************************************************)
(* _combine_results                                                        *)
(***************************************************************************)
\* a lookup that never finds the id
HasId_never(doc_scores, doc_id) == FALSE

\* `doc_id not in doc_scores` of lines 232 and 243, negated
HasId(doc_scores, doc_id) == \E p \in 1..Len(doc_scores) : doc_scores[p].doc_id = doc_id

\* a lexical pass that puts every new entry in front
MergeBM25_prepending(doc_scores, result) ==
  IF HasId(doc_scores, result.document_id)
    THEN doc_scores
    ELSE <<[doc_id |-> result.document_id, document |-> result.document,
            bm25_score |-> result.score, vector_score |-> 0,
            combined_score |-> 0]>> \o doc_scores

\* lines 231-238: one lexical result; a dict keeps its keys in insertion order
MergeBM25(doc_scores, result) ==
  IF HasId(doc_scores, result.document_id)
    THEN doc_scores
    ELSE Append(doc_scores,
                [doc_id |-> result.document_id, document |-> result.document,
                 bm25_score |-> result.score, vector_score |-> 0,
                 combined_score |-> 0])

\* lines 230-238: doc_scores in insertion order
RECURSIVE ProcessBM25(_, _)
ProcessBM25(doc_scores, bm25_results) ==
  IF bm25_results = <<>> THEN doc_scores
  ELSE ProcessBM25(MergeBM25(doc_scores, Head(bm25_results)), Tail(bm25_results))

\* a semantic pass that replaces the whole entry of an id it finds
MergeVector_overwriting(doc_scores, result) ==
  IF HasId(doc_scores, result.document_id)
    THEN [p \in 1..Len(doc_scores) |->
            IF doc_scores[p].doc_id = result.document_id
              THEN [doc_id |-> result.document_id, document |-> result.document,
                    bm25_score |-> 0, vector_score |-> result.score,
                    combined_score |-> 0]
              ELSE doc_scores[p]] \o <<>>
    ELSE Append(doc_scores,
                [doc_id |-> result.document_id, document |-> result.document,
                 bm25_score |-> 0, vector_score |-> result.score,
                 combined_score |-> 0])

\* lines 242-251: one semantic result
MergeVector(doc_scores, result) ==
  IF HasId(doc_scores, result.document_id)
    THEN [p \in 1..Len(doc_scores) |->
            IF doc_scores[p].doc_id = result.document_id
              THEN [doc_scores[p] EXCEPT !.vector_score = result.score]
              ELSE doc_scores[p]] \o <<>>
    ELSE Append(doc_scores,
                [doc_id |-> result.document_id, document |-> result.document,
                 bm25_score |-> 0, vector_score |-> result.score,
                 combined_score |-> 0])

\* lines 241-251
RECURSIVE ProcessVector(_, _)
ProcessVector(doc_scores, vector_results) ==
  IF vector_results = <<>> THEN doc_scores
  ELSE ProcessVector(MergeVector(doc_scores, Head(vector_results)), Tail(vector_results))

\* the two weights exchanged
CombinedScore_swapped(scores, weights) ==
  scores.bm25_score * weights.semantic[1] + scores.vector_score * weights.keyword[1]

\* lines 254-257, for weights that have both keys
CombinedScore(scores, weights) ==
  scores.bm25_score * weights.keyword[1] + scores.vector_score * weights.semantic[1]

\* the sort without reverse=True
SortedByCombined_ascending(entries) ==
  LET N == Len(entries)
      pos(p) == 1 + Cardinality({q \in 1..N :
                   \/ entries[q].combined_score < entries[p].combined_score
                   \/ /\ entries[q].combined_score = entries[p].combined_score
                      /\ q < p})
  IN  [r \in 1..N |-> entries[CHOOSE p \in 1..N : pos(p) = r]] \o <<>>

\* sorted(..., key=combined_score, reverse=True): Python's sort is stable,
\* also with reverse=True, so equal keys keep their order
SortedByCombined(entries) ==
  LET N == Len(entries)
      pos(p) == 1 + Cardinality({q \in 1..N :
                   \/ entries[q].combined_score > entries[p].combined_score
                   \/ /\ entries[q].combined_score = entries[p].combined_score
                      /\ q < p})
  IN  [r \in 1..N |-> entries[CHOOSE p \in 1..N : pos(p) = r]] \o <<>>

\* A record [raised, value]: the weights are read only inside the loop of
\* line 254, so missing keys raise KeyError only when there is an entry.
_combine_results(bm25_results, vector_results, weights, top_k) ==
  LET doc_scores == ProcessVector(ProcessBM25(<<>>, bm25_results), vector_results)
      scored == [p \in 1..Len(doc_scores) |->
                   [doc_scores[p] EXCEPT
                      !.combined_score = CombinedScore(doc_scores[p], weights)]] \o <<>>
      sorted_results == TopK(SortedByCombined(scored), top_k)
  IN  IF doc_scores # <<>> /\ (weights.keyword = None \/ weights.semantic = None)
        THEN [raised |-> "KeyError", value |-> <<>>]
        ELSE [raised |-> "none",
              value |-> [r \in 1..Len(sorted_results) |->
                           [document       |-> sorted_results[r].document,
                            document_id    |-> sorted_results[r].doc_id,
                            combined_score |-> sorted_results[r].combined_score,
                            bm25_score     |-> sorted_results[r].bm25_score,
                            vector_score   |-> sorted_results[r].vector_score,
                            search_type    |-> "hybrid"]] \o <<>>]

CombineResults(bm25_results, vector_results, weights, top_k) ==
  LET r == _combine_results(bm25_results, vector_results, weights, top_k)
  IN  /\ last' = Outcome("_combine_results",
                         [bm25_results |-> bm25_results, vector_results |-> vector_results,
                          weights |-> weights, top_k |-> top_k],
                         r.raised, r.value)
      /\ UNCHANGED <<engine, env, rest>>

(***************************************************************************)
(* hybrid_search(query, top_k, filename)                                   *)
(***************************************************************************)
\* A record [raised, value], given how the LLM call and the embedding
\* index query end.
\* each search asked for top_k candidates only
Candidates_top_k(top_k) == top_k

\* lines 209-210: the number of candidates asked of each search
Candidates(top_k) == top_k * 2

hybrid_search(index_opt, docs, ids, ties, key_set, query, top_k, llm, chroma) ==
  LET analyzed == analyze_query(key_set, query, llm)
      analysis == analyzed.value
      bm25     == bm25_search(index_opt, docs, ids, ties, query, Candidates(top_k))
  IN  IF analyzed.raised # "none"
        THEN [raised |-> analyzed.raised, value |-> <<>>]
      ELSE IF analysis.type # "dict"
        THEN [raised |-> "TypeError", value |-> <<>>]
      ELSE IF analysis.search_weights = None
        THEN [raised |-> "KeyError", value |-> <<>>]
      ELSE IF bm25.raised # "none"
        THEN [raised |-> bm25.raised, value |-> <<>>]
      ELSE _combine_results(bm25.value, vector_search(chroma),
                            analysis.search_weights[1], top_k)

HybridSearch(query, top_k, filename, llm, chroma) ==
  LET r == hybrid_search(bm25_index, documents, document_ids, argsort_ties,
                         api_key_set, query, top_k, llm, chroma)
  IN  /\ last' = Outcome("hybrid_search",
                         [query |-> query, top_k |-> top_k, filename |-> filename,
                          llm |-> llm, chroma |-> chroma],
                         r.raised, r.value)
      /\ UNCHANGED <<engine, env, rest>>

(***************************************************************************)
(* The caller takes the result (or the exception) of the finished call.    *)
(***************************************************************************)
Return ==
  /\ ~Idle
  /\ last' = NoCall
  /\ UNCHANGED <<engine, env, rest>>

IdArgs(n) == {None, Some(GivenIds(n))}

BuildIndex == Idle /\ \E docs \in Corpora : \E ids_arg \in IdArgs(Len(docs)) : build_index(docs, ids_arg)

LexicalSearch == Idle /\ \E query \in QueryPool : \E top_k \in TopKs : Bm25Search(query, top_k)

Next ==
  \/ BuildIndex
  \/ LexicalSearch
  \/ Return

Spec == Init /\ [][Next]_vars

(***************************************************************************)
(* The hybrid path, over a few document lists.                             *)
(***************************************************************************)
HybridCorpora == { <<>>, <<Dstop>>, <<Dcat, Ddog, Dpets>>, <<Dcat, Dcat, Dpets>> }

HybridQueries == {Qcat, QcatLoyal, Qwhat, Qsteps}

LLMChoices == IF api_key_set THEN LLMOutcomes ELSE {LLMNotCalled}

BuildSample ==
  Idle /\ \E docs \in HybridCorpora : \E ids_arg \in IdArgs(Len(docs)) : build_index(docs, ids_arg)

Analyze == Idle /\ \E query \in QueryPool : \E llm \in LLMChoices : AnalyzeQuery(query, llm)

SemanticSearch ==
  Idle /\ \E query \in HybridQueries : \E top_k \in TopKs : \E filename \in Filenames :
    \E chroma \in ChromaTable[<<collection, top_k, filename>>] :
      VectorSearch(query, top_k, filename, chroma)

Hybrid ==
  Idle /\ \E query \in HybridQueries : \E top_k \in TopKs : \E filename \in Filenames :
    \E llm \in LLMChoices : \E chroma \in ChromaTable[<<collection, Candidates(top_k), filename>>] :
      HybridSearch(query, top_k, filename, llm, chroma)

HybridLexicalSearch ==
  Idle /\ \E query \in HybridQueries : \E top_k \in TopKs : Bm25Search(query, top_k)

NextHybrid ==
  \/ BuildSample
  \/ HybridLexicalSearch
  \/ Analyze
  \/ SemanticSearch
  \/ Hybrid
  \/ Return

SpecHybrid == InitHybrid /\ [][NextHybrid]_vars

(***************************************************************************)
(* _combine_results as a function of its arguments.                        *)
(***************************************************************************)
MaxResults == 2   \* longest result list handed to _combine_results

FusionIds == {"a", "b", "c"}

\* result lists as the two searches format them
KeywordResults ==
  UNION { [1..n -> { [document |-> Dcat, document_id |-> id, score |-> sc,
                      search_type |-> "keyword"] :
                     id \in FusionIds, sc \in {20000, 5000} }] : n \in 0..MaxResults }

SemanticResults ==
  UNION { [1..n -> { [document |-> Ddog, document_id |-> id, score |-> sc,
                      search_type |-> "semantic"] :
                     id \in FusionIds, sc \in {9000, -5000} }] : n \in 0..MaxResults }

WeightPool == { Weights(Some(6), Some(4)), Weights(Some(8), Some(2)), Weights(Some(10), Some(0)) }

Fuse ==
  Idle /\ \E bm25_results \in KeywordResults : \E vector_results \in SemanticResults :
    \E weights \in WeightPool : \E top_k \in TopKs :
      CombineResults(bm25_results, vector_results, weights, top_k)

NextFusion ==
  \/ Fuse
  \/ Return

SpecFusion == Init /\ [][NextFusion]_vars

(***************************************************************************)
(* The request to the LLM in flight: analyze_query, called directly or by  *)
(* hybrid_search (line 205), waits in client.chat.completions.create       *)
(* (lines 94-102) until the backend answers or the client gives up.        *)
(***************************************************************************)
\* a client constructed with timeout=None
HasTimeout_none == FALSE

\* line 17: OpenAI(api_key=...) keeps the client's default request timeout
HasTimeout == TRUE

TimedOut == [kind |-> "timeout", json |-> JsonList]

Waiting == llm_call # None

\* without a key line 79 returns at once
AnalyzeLocally == ~api_key_set /\ Analyze

HybridLocally == ~api_key_set /\ Hybrid

RequestAnalysis ==
  /\ Idle /\ ~Waiting /\ api_key_set
  /\ \E query \in QueryPool :
       llm_call' = Some([caller |-> "analyze_query", query |-> query,
                         top_k |-> 0, filename |-> None])
  /\ UNCHANGED <<engine, env, buffer, workers, last>>

RequestHybrid ==
  /\ Idle /\ ~Waiting /\ api_key_set
  /\ \E query \in HybridQueries : \E top_k \in TopKs : \E filename \in Filenames :
       llm_call' = Some([caller |-> "hybrid_search", query |-> query,
                         top_k |-> top_k, filename |-> filename])
  /\ UNCHANGED <<engine, env, buffer, workers, last>>

\* the request ends as llm says, and the waiting call runs to its end
Complete(llm) ==
  LET call == llm_call[1]
  IN  /\ llm_call' = None
      /\ UNCHANGED <<engine, env, buffer, workers>>
      /\ IF call.caller = "analyze_query"
           THEN LET r == analyze_query(api_key_set, call.query, llm)
                IN  last' = Outcome("analyze_query", [query |-> call.query, llm |-> llm],
                                    r.raised, r.value)
           ELSE \E chroma \in ChromaTable[<<collection, Candidates(call.top_k), call.filename>>] :
                  LET r == hybrid_search(bm25_index, documents, document_ids, argsort_ties,
                                         api_key_set, call.query, call.top_k, llm, chroma)
                  IN  last' = Outcome("hybrid_search",
                                      [query |-> call.query, top_k |-> call.top_k,
                                       filename |-> call.filename, llm |-> llm,
                                       chroma |-> chroma],
                                      r.raised, r.value)

\* the backend answers, or the request fails at once
LLMAnswers == Waiting /\ \E llm \in LLMOutcomes \ {TimedOut} : Complete(llm)

\* the client abandons the request: APITimeoutError
LLMTimeout == Waiting /\ HasTimeout /\ Complete(TimedOut)

NextLive ==
  \/ AnalyzeLocally
  \/ HybridLocally
  \/ RequestAnalysis
  \/ RequestHybrid
  \/ LLMAnswers
  \/ LLMTimeout
  \/ Return

\* the timer of the client runs whatever the backend does
SpecLive == InitHybrid /\ [][NextLive]_vars /\ WF_vars(LLMTimeout)

(***************************************************************************)
(* Uploads: VectorStore.add_document stores the chunks of a file and then  *)
(* hands them to initialize_hybrid_search, that is to build_index.         *)
(***************************************************************************)
UploadNames == {"a.pdf", "b.pdf"}

\* the valid chunks of the two files
FileChunks(filename) ==
  IF filename = "a.pdf" THEN <<Dcat, Ddog, Dpets>> ELSE <<Dstop>>

\* line 103: [f"{filename}_{i}" for i in range(len(successful_chunks))]
ChunkIds(filename) ==
  IF filename = "a.pdf" THEN <<"a.pdf_0", "a.pdf_1", "a.pdf_2">> ELSE <<"b.pdf_0">>

\* what collection.add stores for the file (lines 104-113)
ChunksOf(filename) ==
  {Chunk(filename, i - 1, FileChunks(filename)[i]) : i \in 1..Len(FileChunks(filename))}

UploadCollections == {UNION {ChunksOf(f) : f \in F} : F \in SUBSET UploadNames}

\* the embedder fails on the batch (lines 95-97), collection.add raises
\* (lines 127-129), or the chunks are stored
AddOutcomes == {"embedding_failed", "add_failed", "stored"}

\* add_document without the inner try of lines 118-123: an exception of
\* initialize_hybrid_search reaches the handler of line 127
add_document_unguarded(filename, outcome) ==
  LET chunks == FileChunks(filename)
      index  == IndexTable[chunks]
      matrix == MatrixTable[chunks]
      args   == [filename |-> filename, chunks |-> chunks]
  IN  IF outcome # "stored"
        THEN /\ last' = Outcome("add_document", args, "none", Some(FALSE))
             /\ UNCHANGED <<engine, env, rest>>
        ELSE /\ collection' = collection \cup ChunksOf(filename)
             /\ documents' = chunks
             /\ document_ids' = ChunkIds(filename)
             /\ IF index = None
                  THEN UNCHANGED <<bm25_index, tfidf_matrix>>
                  ELSE /\ bm25_index' = index
                       /\ IF matrix = None
                            THEN UNCHANGED tfidf_matrix
                            ELSE tfidf_matrix' = matrix
             /\ last' = Outcome("add_document", args, "none",
                                Some(index # None /\ matrix # None))
             /\ UNCHANGED <<argsort_ties, api_key_set, rest>>

\* add_document(filename, chunks): True (Some(TRUE)) when the chunks were
\* stored.  An exception of initialize_hybrid_search is swallowed (lines
\* 118-123), so build_index has its effect up to the line that raised.
add_document(filename, outcome) ==
  LET chunks == FileChunks(filename)
      index  == IndexTable[chunks]
      matrix == MatrixTable[chunks]
      args   == [filename |-> filename, chunks |-> chunks]
  IN  IF outcome # "stored"
        THEN /\ last' = Outcome("add_document", args, "none", Some(FALSE))
             /\ UNCHANGED <<engine, env, rest>>
        ELSE /\ collection' = collection \cup ChunksOf(filename)
             /\ documents' = chunks
             /\ document_ids' = ChunkIds(filename)
             /\ IF index = None
                  THEN UNCHANGED <<bm25_index, tfidf_matrix>>
                  ELSE /\ bm25_index' = index
                       /\ IF matrix = None
                            THEN UNCHANGED tfidf_matrix
                            ELSE tfidf_matrix' = matrix
             /\ last' = Outcome("add_document", args, "none", Some(TRUE))
             /\ UNCHANGED <<argsort_ties, api_key_set, rest>>

UploadFilters == {None} \cup {Some(f) : f \in UploadNames}

UploadChromaTable ==
  Tabulated([x \in UploadCollections \X (0..(2 * MaxTopK)) \X UploadFilters |->
               ChromaOutcomes(x[1], x[2], x[3])])

AddDocument ==
  Idle /\ \E filename \in UploadNames : \E outcome \in AddOutcomes :
    add_document(filename, outcome)

FilteredHybrid ==
  Idle /\ \E query \in HybridQueries : \E top_k \in TopKs : \E filename \in UploadFilters :
    \E llm \in LLMChoices :
      \E chroma \in UploadChromaTable[<<collection, Candidates(top_k), filename>>] :
        HybridSearch(query, top_k, filename, llm, chroma)

NextUpload ==
  \/ AddDocument
  \/ FilteredHybrid
  \/ Return

SpecUpload == Init /\ [][NextUpload]_vars

(***************************************************************************)
(* ConversationBuffer (src/modules/conversation_buffer.py).                *)
(***************************************************************************)
MaxHistory == 2        \* largest max_history a buffer is constructed with
MaxInteractions == 4

\* the rate limit of the model: max_requests calls in window_seconds seconds
MaxRequests == 2
WindowSeconds == 2

\* the clock of the rate limiter stops here, and so many calls are made
MaxTime == 4
MaxCalls == 5

\* the texts given to chunk_text, the chunk sizes and the chunks collected
MaxTextLen == 5
MaxChunkSize == 3
MaxChunks == 4   \* add_interaction calls in one behaviour

Sessions == {"s1", "s2"}

UserMessages == {"What is NLP?", "How does it work?"}

ContextArgs == {None, Some(<<Dcat>>)}

\* s[-n:] of Python: the last n elements for n > 0, but the whole list for
\* n = 0 (-0 is 0), and s without its first -n elements for n < 0
LastSlice(s, n) ==
  IF n = 0 THEN s
  ELSE IF n > 0 THEN SubSeq(s, (IF Len(s) > n THEN Len(s) - n + 1 ELSE 1), Len(s))
  ELSE SubSeq(s, 1 - n, Len(s))

\* `context_chunks or []`
ListOrEmpty(arg) == IF arg = None THEN <<>> ELSE arg[1]

\* the history of the session, [] for a session not seen yet (lines 46-47)
HistoryOf(session_id) ==
  IF session_id \in DOMAIN conversations THEN conversations[session_id] ELSE <<>>

\* add_interaction: uuid4 and the clock give every interaction a value no
\* earlier interaction has, here its serial number
add_interaction(session_id, user_message, ai_response, context_chunks) ==
  LET interaction == [id             |-> clock + 1,
                      timestamp      |-> clock + 1,
                      user_message   |-> user_message,
                      ai_response    |-> ai_response,
                      context_chunks |-> ListOrEmpty(context_chunks)]
      appended == Append(HistoryOf(session_id), interaction)
      kept == IF Len(appended) > max_history
                THEN LastSlice(appended, max_history)
                ELSE appended
  IN  /\ conversations' = (session_id :> kept) @@ conversations
      /\ clock' = clock + 1
      /\ last' = Outcome("add_interaction",
                         [session_id |-> session_id, user_message |-> user_message,
                          ai_response |-> ai_response, context_chunks |-> context_chunks],
                         "none", <<>>)
      /\ UNCHANGED <<engine, env, llm_call, max_history, workers>>

\* a buffer constructed with any max_history of the model
InitBuffer ==
  /\ EngineInit
  /\ api_key_set = FALSE
  /\ collection = {}
  /\ \E history \in 0..MaxHistory : BufferInit(history)

AddInteraction ==
  /\ Idle
  /\ clock < MaxInteractions
  /\ \E session_id \in Sessions : \E user_message \in UserMessages :
       \E context_chunks \in ContextArgs :
         add_interaction(session_id, user_message, "An answer.", context_chunks)

NextBuffer ==
  \/ AddInteraction
  \/ Return

SpecBuffer == InitBuffer /\ [][NextBuffer]_vars

(***************************************************************************)
(* Rebuilding the index: build_index called again and again, also with     *)
(* document lists it raises on, and lexical searches in between.           *)
(***************************************************************************)
Rebuild ==
  Idle /\ \E docs \in RebuildCorpora : \E ids_arg \in IdArgs(Len(docs)) : build_index(docs, ids_arg)

NextRebuild ==
  \/ Rebuild
  \/ LexicalSearch
  \/ Return

SpecRebuild == Init /\ [][NextRebuild]_vars



(***************************************************************************)
(* build_index and bm25_search on two threads.  The engine has no lock:    *)
(* build_index assigns its four attributes one statement at a time, and    *)
(* bm25_search reads bm25_index once for the scores and then documents and *)
(* document_ids once for every selected index.  A thread switch can fall   *)
(* between any two of these statements.  The document lists are ones that  *)
(* build_index does not raise on, so that every build that is left alone   *)
(* ends in a snapshot whose index belongs to its documents.                *)
(***************************************************************************)
ConcurrentCorpora == {<<Dcat, Ddog, Dpets>>, <<Dpets, Ddog, Dcat>>, <<Dcat>>}

ConcurrentQueries == {Qcat, Qwhat}

Building == tasks.build # None

Searching == tasks.search # None /\ tasks.search[1].pc # "done"

\* what the two-thread runs leave alone besides the engine
apart == <<env, last, llm_call, buffer, limiter, chunker>>

\* a thread enters build_index(docs, ids_arg); a search that is running
\* from now on overlaps a build
BeginBuild ==
  /\ ~Building
  /\ \E docs \in ConcurrentCorpora : \E ids_arg \in IdArgs(Len(docs)) :
       tasks' = [build  |-> Some([documents |-> docs, document_ids |-> ids_arg,
                                  pc |-> "documents"]),
                 search |-> IF Searching
                              THEN Some([tasks.search[1] EXCEPT !.overlapped = TRUE])
                              ELSE tasks.search]
  /\ UNCHANGED <<engine, apart>>

\* the build is at the statement pc
BuildAt(pc) == Building /\ tasks.build[1].pc = pc

BuildGoes(pc) == tasks' = [tasks EXCEPT !.build = Some([tasks.build[1] EXCEPT !.pc = pc])]

\* line 48
AssignDocuments ==
  /\ BuildAt("documents")
  /\ documents' = tasks.build[1].documents
  /\ BuildGoes("document_ids")
  /\ UNCHANGED <<document_ids, bm25_index, tfidf_matrix, apart>>

\* line 49
AssignDocumentIds ==
  /\ BuildAt("document_ids")
  /\ document_ids' = IdsOrDefault(tasks.build[1].document_ids, Len(tasks.build[1].documents))
  /\ BuildGoes("bm25_index")
  /\ UNCHANGED <<documents, bm25_index, tfidf_matrix, apart>>

\* lines 52-53: the index is built aside and assigned in one statement; an
\* exception of BM25Okapi ends the call
AssignIndex ==
  /\ BuildAt("bm25_index")
  /\ LET index == IndexTable[tasks.build[1].documents]
     IN  IF index = None
           THEN /\ tasks' = [tasks EXCEPT !.build = None]
                /\ UNCHANGED bm25_index
           ELSE /\ bm25_index' = index
                /\ BuildGoes("tfidf_matrix")
  /\ UNCHANGED <<documents, document_ids, tfidf_matrix, apart>>

\* line 56, after which build_index returns
AssignMatrix ==
  /\ BuildAt("tfidf_matrix")
  /\ LET matrix == MatrixTable[tasks.build[1].documents]
     IN  IF matrix = None THEN UNCHANGED tfidf_matrix ELSE tfidf_matrix' = matrix
  /\ tasks' = [tasks EXCEPT !.build = None]
  /\ UNCHANGED <<documents, document_ids, bm25_index, apart>>

\* the loop of lines 155-156 without its test
Hits_unfiltered(scores, top) == top

\* lines 155-156: the selected indices whose score is relevant, in order
Hits(scores, top) == SelectSeq(top, LAMBDA idx : IsRelevant(scores[idx]))

SearchGoes(search) == tasks' = [tasks EXCEPT !.search = Some(search)]

\* lines 144-151: the thread enters bm25_search(query, top_k), reads
\* bm25_index and computes the scores and the selected indices from it
BeginSearch ==
  /\ tasks.search = None
  /\ \E query \in ConcurrentQueries : \E top_k \in TopKs :
       LET scores == IF bm25_index = None THEN <<>>
                     ELSE get_scores(bm25_index[1], TokenTable[query]) \o <<>>
           hits   == IF bm25_index = None THEN <<>>
                     ELSE Hits(scores, top_indices(scores, argsort_ties, top_k))
       IN  SearchGoes([query |-> query, top_k |-> top_k, scores |-> scores,
                       hits |-> hits, document |-> None,
                       raised |-> "none", value |-> <<>>,
                       overlapped |-> Building,
                       pc |-> IF hits = <<>> THEN "done" ELSE "document"])
  /\ UNCHANGED <<engine, apart>>

SearchAt(pc) == tasks.search # None /\ tasks.search[1].pc = pc

\* the index the loop is at
NextHit(search) == search.hits[Len(search.value) + 1]

\* line 158: self.documents[idx]
ReadDocument ==
  /\ SearchAt("document")
  /\ LET search == tasks.search[1]
         idx    == NextHit(search)
     IN  IF idx > Len(documents)
           THEN SearchGoes([search EXCEPT !.raised = "IndexError", !.value = <<>>,
                                          !.pc = "done"])
           ELSE SearchGoes([search EXCEPT !.document = Some(documents[idx]),
                                          !.pc = "document_id"])
  /\ UNCHANGED <<engine, apart>>

\* lines 159-162: self.document_ids[idx], and the result is appended
ReadDocumentId ==
  /\ SearchAt("document_id")
  /\ LET search == tasks.search[1]
         idx    == NextHit(search)
         result == [document |-> search.document[1], document_id |-> document_ids[idx],
                    score |-> search.scores[idx], search_type |-> "keyword"]
     IN  IF idx > Len(document_ids)
           THEN SearchGoes([search EXCEPT !.raised = "IndexError", !.value = <<>>,
                                          !.document = None, !.pc = "done"])
           ELSE SearchGoes([search EXCEPT
                              !.value = Append(@, result), !.document = None,
                              !.pc = IF Len(search.value) + 1 = Len(search.hits)
                                       THEN "done" ELSE "document"])
  /\ UNCHANGED <<engine, apart>>

\* line 164: the caller has the results (or the exception)
EndSearch ==
  /\ SearchAt("done")
  /\ tasks' = [tasks EXCEPT !.search = None]
  /\ UNCHANGED <<engine, apart>>

NextConcurrent ==
  \/ BeginBuild
  \/ AssignDocuments
  \/ AssignDocumentIds
  \/ AssignIndex
  \/ AssignMatrix
  \/ BeginSearch
  \/ ReadDocument
  \/ ReadDocumentId
  \/ EndSearch

SpecConcurrent == Init /\ [][NextConcurrent]_vars


(***************************************************************************)
(* Fusion of result lists as the engine produces them for uploaded files:  *)
(* the semantic results carry the file name as document_id, so the chunks  *)
(* of one file share an id, and the lexical results carry the ids of the   *)
(* lexical snapshot.                                                       *)
(***************************************************************************)
LexicalChunkResults ==
  UNION { [1..n -> { [document |-> Dpets, document_id |-> id, score |-> sc,
                      search_type |-> "keyword"] :
                     id \in {"a.pdf", "a.pdf_0"}, sc \in {9000, 2000} }] : n \in 0..MaxResults }

SemanticChunkResults ==
  UNION { [1..n -> { [document |-> doc, document_id |-> id, score |-> sc,
                      search_type |-> "semantic"] :
                     doc \in {Dcat, Ddog}, id \in {"a.pdf", "b.pdf"},
                     sc \in {9000, 2000} }] : n \in 0..MaxResults }

ChunkWeights == { Weights(Some(5), Some(5)), Weights(Some(6), Some(4)) }

FuseChunks ==
  Idle /\ \E bm25_results \in LexicalChunkResults : \E vector_results \in SemanticChunkResults :
    \E weights \in ChunkWeights : \E top_k \in TopKs :
      CombineResults(bm25_results, vector_results, weights, top_k)

NextChunks ==
  \/ FuseChunks
  \/ Return

SpecChunks == Init /\ [][NextChunks]_vars


(***************************************************************************)
(* The sessions of the conversation buffer: interactions are added to and  *)
(* sessions are cleared from one buffer, and read in between.              *)
(***************************************************************************)
\* the sessions a caller may name: "s3" never gets an interaction
ClearableSessions == Sessions \cup {"s3"}

\* the dictionary without the key
Without(dict, key) ==
  IF DOMAIN dict \ {key} = {} THEN <<>>
  ELSE [k \in DOMAIN dict \ {key} |-> dict[k]]

\* a clear that empties the whole buffer
clear_conversation_all(session_id) ==
  /\ conversations' = <<>>
  /\ last' = Outcome("clear_conversation", [session_id |-> session_id], "none", <<>>)
  /\ UNCHANGED <<engine, env, llm_call, max_history, clock, workers>>

\* lines 167-176
clear_conversation(session_id) ==
  /\ conversations' = IF session_id \in DOMAIN conversations
                        THEN Without(conversations, session_id)
                        ELSE conversations
  /\ last' = Outcome("clear_conversation", [session_id |-> session_id], "none", <<>>)
  /\ UNCHANGED <<engine, env, llm_call, max_history, clock, workers>>

\* the orders in which the keys of the dictionary can be listed: the model
\* keeps the sessions as a function, without the order of their insertion
KeyLists(dict) ==
  {keys \in [1..Cardinality(DOMAIN dict) -> DOMAIN dict] :
     \A i, j \in 1..Cardinality(DOMAIN dict) : keys[i] = keys[j] => i = j}

\* lines 182-189: list(self.conversations.keys())
get_all_sessions ==
  /\ \E keys \in KeyLists(conversations) :
       last' = Outcome("get_all_sessions", <<>>, "none", keys \o <<>>)
  /\ UNCHANGED <<engine, env, rest>>

\* lines 101-116: [] for an unknown session, else the last interactions
get_recent_context(session_id, num_interactions) ==
  /\ last' = Outcome("get_recent_context",
                     [session_id |-> session_id, num_interactions |-> num_interactions],
                     "none",
                     IF session_id \notin DOMAIN conversations THEN <<>>
                     ELSE LastSlice(conversations[session_id], num_interactions))
  /\ UNCHANGED <<engine, env, rest>>

ClearConversation ==
  Idle /\ \E session_id \in ClearableSessions : clear_conversation(session_id)

GetAllSessions == Idle /\ get_all_sessions

\* the default of num_interactions
DefaultInteractions == 3

GetRecentContext ==
  Idle /\ \E session_id \in ClearableSessions :
    get_recent_context(session_id, DefaultInteractions)

NextSessions ==
  \/ AddInteraction
  \/ ClearConversation
  \/ GetAllSessions
  \/ GetRecentContext
  \/ Return

SpecSessions == InitBuffer /\ [][NextSessions]_vars


(***************************************************************************)
(* RateLimiter.is_allowed(key, max_requests, window_seconds) called by     *)
(* several threads with the same arguments.  limiter.requests is           *)
(* self.requests[key], limiter.lock the holder of self.lock, limiter.calls *)
(* the calls under way (their position and their local `now`),             *)
(* limiter.returned the calls that have returned, with the time of the     *)
(* request and the answer, and limiter.time the value time.time() gives.   *)
(* `now` is read before the lock is taken (line 50), so the threads can    *)
(* enter the critical section in another order than they read the clock.   *)
(***************************************************************************)
Threads == {"t1", "t2"}

\* what the rate limiter's steps leave alone
beside == <<engine, env, last, llm_call, buffer, tasks, chunker>>

InCall(thread) == thread \in DOMAIN limiter.calls

CallAt(thread, pc) == InCall(thread) /\ limiter.calls[thread].pc = pc

\* time passes
Tick ==
  /\ limiter.time < MaxTime
  /\ limiter' = [limiter EXCEPT !.time = @ + 1]
  /\ UNCHANGED beside

\* line 50: now = time.time()
ReadClock ==
  /\ \E thread \in Threads :
       /\ ~InCall(thread)
       /\ Len(limiter.returned) + Cardinality(DOMAIN limiter.calls) < MaxCalls
       /\ limiter' = [limiter EXCEPT
            !.calls = (thread :> [pc |-> "lock", now |-> limiter.time]) @@ @]
  /\ UNCHANGED beside

\* line 52: with self.lock
AcquireLock ==
  /\ limiter.lock = None
  /\ \E thread \in Threads :
       /\ CallAt(thread, "lock")
       /\ limiter' = [limiter EXCEPT
            !.lock = Some(thread),
            !.calls = [@ EXCEPT ![thread].pc = "critical"]]
  /\ UNCHANGED beside

\* lines 54-55: the request times younger than the window, seen from now
Cleaned(requests, now, window_seconds) ==
  SelectSeq(requests, LAMBDA req_time : now - req_time < window_seconds)

\* lines 54-63 under the lock, and the lock is released on return
CheckAndRecord ==
  /\ \E thread \in Threads :
       /\ CallAt(thread, "critical")
       /\ limiter.lock = Some(thread)
       /\ LET now     == limiter.calls[thread].now
              cleaned == Cleaned(limiter.requests, now, WindowSeconds)
              allowed == ~(Len(cleaned) >= MaxRequests)
          IN  limiter' = [limiter EXCEPT
                !.requests = IF allowed THEN Append(cleaned, now) ELSE cleaned,
                !.lock = None,
                !.calls = Without(@, thread),
                !.returned = Append(@, [thread |-> thread, now |-> now,
                                        allowed |-> allowed])]
  /\ UNCHANGED beside

NextLimiter ==
  \/ Tick
  \/ ReadClock
  \/ AcquireLock
  \/ CheckAndRecord

SpecLimiter == Init /\ [][NextLimiter]_vars


(***************************************************************************)
(* DocumentProcessor.chunk_text(text), one iteration of its loop per step. *)
(* Positions are Python's: they count from 0, a negative position counts   *)
(* from the end of the text.                                               *)
(***************************************************************************)
\* line 113: how far back from the chunk end a sentence end is looked for
SentenceLookBack == 100

\* line 114: '.!?'
SentenceEnds == {".", "!", "?"}

ChunkChars == {"a", ".", " "}

ChunkTexts == UNION {[1..n -> ChunkChars] : n \in 0..MaxTextLen}

\* DocumentProcessor(chunk_size, chunk_overlap) with 0 <= chunk_overlap < chunk_size
ChunkSettings ==
  {s \in [chunk_size : 2..MaxChunkSize, chunk_overlap : 0..(MaxChunkSize - 1)] :
     s.chunk_overlap < s.chunk_size}

Max(a, b) == IF a >= b THEN a ELSE b

\* text[i] raises IndexError outside -len(text) .. len(text) - 1
InRange(text, i) == -Len(text) <= i /\ i < Len(text)

\* text[i]
At(text, i) == IF i >= 0 THEN text[i + 1] ELSE text[Len(text) + i + 1]

\* a slice bound as Python normalises it
SliceBound(text, i) == IF i < 0 THEN Max(Len(text) + i, 0) ELSE Min(i, Len(text))

\* text[from:to]
Slice(text, from, to) == SubSeq(text, SliceBound(text, from) + 1, SliceBound(text, to))

\* str.strip()
RECURSIVE LStrip(_)
LStrip(s) == IF s # <<>> /\ Head(s) = " " THEN LStrip(Tail(s)) ELSE s

RECURSIVE RStrip(_)
RStrip(s) == IF s # <<>> /\ s[Len(s)] = " " THEN RStrip(SubSeq(s, 1, Len(s) - 1)) ELSE s

Strip(s) == LStrip(RStrip(s))

\* what the chunker's steps leave alone
aside == <<engine, env, last, llm_call, buffer, tasks, limiter>>

\* lines 101-105: chunk_text(text) is called; a text of at most chunk_size
\* characters is returned whole
CallChunkText ==
  /\ chunker.pc = "idle"
  /\ \E text \in ChunkTexts : \E settings \in ChunkSettings :
       chunker' =
         [pc            |-> IF Len(text) <= settings.chunk_size THEN "done" ELSE "loop",
          text          |-> text,
          chunk_size    |-> settings.chunk_size,
          chunk_overlap |-> settings.chunk_overlap,
          start         |-> 0,
          raised        |-> "none",
          chunks        |-> IF Len(text) <= settings.chunk_size /\ text # <<>>
                              THEN <<text>> ELSE <<>>]
  /\ UNCHANGED aside

\* lines 111-116: the positions the backward loop visits are end down to
\* max(start + chunk_size - 100, start) + 1; it stops at the first one that
\* holds a sentence end, or that the text does not have
SentenceEnd(text, start, chunk_size) ==
  LET end     == start + chunk_size
      low     == Max(start + chunk_size - SentenceLookBack, start)
      stops   == {i \in (low + 1)..end :
                    ~InRange(text, i) \/ At(text, i) \in SentenceEnds}
      highest == CHOOSE i \in stops : \A j \in stops : j <= i
  IN  IF ~(end < Len(text)) \/ stops = {} THEN [raised |-> "none", end |-> end]
      ELSE IF ~InRange(text, highest) THEN [raised |-> "IndexError", end |-> end]
      ELSE [raised |-> "none", end |-> highest + 1]

\* lines 107-126: one iteration of `while start < len(text)`
NextChunk ==
  /\ chunker.pc = "loop"
  /\ Len(chunker.chunks) < MaxChunks
  /\ LET text  == chunker.text
         found == SentenceEnd(text, chunker.start, chunker.chunk_size)
         chunk == Strip(Slice(text, chunker.start, found.end))
         start == found.end - chunker.chunk_overlap
     IN  IF found.raised # "none"
           THEN chunker' = [chunker EXCEPT !.pc = "done", !.raised = found.raised]
           ELSE chunker' = [chunker EXCEPT
                  !.chunks = IF chunk # <<>> THEN Append(@, chunk) ELSE @,
                  !.start  = start,
                  !.pc     = IF start >= Len(text) THEN "done" ELSE "loop"]
  /\ UNCHANGED aside

\* line 128: the caller has the chunks
ReturnChunks ==
  /\ chunker.pc = "done"
  /\ chunker' = NoChunking
  /\ UNCHANGED aside

NextChunker ==
  \/ CallChunkText
  \/ NextChunk
  \/ ReturnChunks

\* the loop is a running thread: it takes its next step
SpecChunker == Init /\ [][NextChunker]_vars /\ WF_vars(NextChunk)

(***************************************************************************)
(* Properties.                                                             *)
(***************************************************************************)
Returned(op) == last.op = op /\ last.raised = "none"

\* C1: every result that bm25_search returns, for any corpus snapshot,
\* query and top_k, has a score strictly greater than 0.
C1_PositiveScores ==
  Returned("bm25_search") =>
    \A p \in 1..Len(last.value) : last.value[p].score > 0

\* bm25_search returned a result and left out a document that top_k had
\* room for
C1_Witness ==
  /\ Returned("bm25_search")
  /\ Len(last.value) >= 1
  /\ Len(last.value) < Len(documents)
  /\ Len(last.value) < last.args.top_k

\* C2: for every query and every k >= 0, bm25_search and hybrid_search
\* return at most k results, and none at all when k = 0.
C2_TopKBound ==
  (Returned("bm25_search") \/ Returned("hybrid_search")) =>
    /\ Len(last.value) <= last.args.top_k
    /\ last.args.top_k = 0 => last.value = <<>>

\* hybrid_search(top_k = 1) returned one result although the embedding
\* index gave hits of two different documents
C2_Witness ==
  /\ Returned("hybrid_search")
  /\ last.args.top_k = 1
  /\ Len(last.value) = 1
  /\ Len(last.args.chroma.metadatas) >= 2
  /\ last.args.chroma.metadatas[1].filename # last.args.chroma.metadatas[2].filename

\* the LLM path is not taken, or it fails
ClassifierUnavailable(llm) == ~api_key_set \/ llm.kind \in {"error", "timeout", "unparsable"}

\* C3: hybrid_search never raises when the corpus is empty or was never
\* built, the LLM classifier is not configured or fails, and the embedding
\* index is empty or unreachable; with no data from either index it returns
\* the empty list.  (Stated for the case where all three hold at once.)
C3_HybridNeverRaises ==
  ( /\ last.op = "hybrid_search"
    /\ (bm25_index = None \/ documents = <<>>)
    /\ ClassifierUnavailable(last.args.llm)
    /\ (collection = {} \/ last.args.chroma.raised) )
  => (last.raised = "none" /\ last.value = <<>>)

\* C4: with no corpus (build_index never called, or called with an empty
\* document list) neither build_index nor bm25_search raises, and
\* bm25_search returns the empty list.
C4_NoCorpusNoError ==
  /\ (last.op = "build_index" /\ last.args.documents = <<>>) => last.raised = "none"
  /\ (last.op = "bm25_search" /\ (bm25_index = None \/ documents = <<>>))
       => (last.raised = "none" /\ last.value = <<>>)

\* C5: analyze_query never raises, and when the LLM path is not taken or
\* fails (backend error, timeout, unparsable response) its result is what
\* the fallback analysis returns for the same query.
C5_AnalyzeFallsBack ==
  last.op = "analyze_query" =>
    /\ last.raised = "none"
    /\ ClassifierUnavailable(last.args.llm) =>
         last.value = _simple_query_analysis(last.args.query)

\* analyze_query was called with a key configured and the backend failed
C5_Witness ==
  /\ last.op = "analyze_query"
  /\ api_key_set
  /\ last.args.llm.kind \in {"error", "timeout"}
  /\ last.value.intent = Some("how_to")

Intents == {"definition", "comparison", "how_to", "factual", "conceptual"}

\* C6: every value analyze_query returns, on the LLM path and on the
\* fallback path, is a QueryAnalysis: a dictionary whose intent is one of
\* the five intents and whose weights carry a semantic and a keyword value.
C6_AnalysisIsQueryAnalysis ==
  Returned("analyze_query") =>
    /\ last.value.type = "dict"
    /\ \E intent \in Intents : last.value.intent = Some(intent)
    /\ last.value.search_weights # None
    /\ last.value.search_weights[1].semantic # None
    /\ last.value.search_weights[1].keyword # None

\* the lowercased query contains one of the words
Mentions(query, words) == \E word \in words : InStr(word, Lower(query) \o <<>>)

\* C7: the fallback analysis applies its rules in order on the lowercased
\* query: what/define/definition gives definition with weights 0.6/0.4
\* (also when a how_to word is present), else how/process/steps gives
\* how_to with 0.8/0.2, else factual with 0.7/0.3; specificity is specific
\* for at most 3 tokens, general otherwise; the weights sum to 1.0.
C7_FallbackRules ==
  (last.op = "analyze_query" /\ ClassifierUnavailable(last.args.llm)) =>
    LET query  == last.args.query
        result == last.value
        w      == result.search_weights[1]
    IN  /\ IF Mentions(query, {W_what, W_define, W_definition})
             THEN result.intent = Some("definition") /\ w = Weights(Some(6), Some(4))
           ELSE IF Mentions(query, {W_how, W_process, W_steps})
             THEN result.intent = Some("how_to") /\ w = Weights(Some(8), Some(2))
           ELSE result.intent = Some("factual") /\ w = Weights(Some(7), Some(3))
        /\ result.query_type =
             (IF Len(_tokenize(query)) <= 3 THEN "specific" ELSE "general")
        /\ result.keywords = _tokenize(query)
        /\ w.semantic[1] + w.keyword[1] = 10

\* the fallback analysed a query that has a definition word and a how_to
\* word
C7_Witness ==
  /\ last.op = "analyze_query"
  /\ ClassifierUnavailable(last.args.llm)
  /\ Mentions(last.args.query, {W_define})
  /\ Mentions(last.args.query, {W_how})
  /\ last.value.intent = Some("definition")

\* the example of the specification: lexical [{a, 2.0}], semantic [{b, 0.9}],
\* weights keyword 0.4 / semantic 0.6
ExampleLexical ==
  << [document |-> Dcat, document_id |-> "a", score |-> 20000, search_type |-> "keyword"] >>
ExampleSemantic ==
  << [document |-> Ddog, document_id |-> "b", score |-> 9000, search_type |-> "semantic"] >>
ExampleWeights == Weights(Some(6), Some(4))

IsExample ==
  /\ last.op = "_combine_results"
  /\ last.args.bm25_results = ExampleLexical
  /\ last.args.vector_results = ExampleSemantic
  /\ last.args.weights = ExampleWeights
  /\ last.args.top_k = 2

\* C8: every fused entry has combined_score = lexical_score * weights.keyword
\* + semantic_score * weights.semantic; in the example a gets 0.8, b gets
\* 0.54 and the result is [a, b].
C8_CombinedScore ==
  Returned("_combine_results") =>
    /\ \A r \in 1..Len(last.value) :
         last.value[r].combined_score =
           last.value[r].bm25_score * last.args.weights.keyword[1]
             + last.value[r].vector_score * last.args.weights.semantic[1]
    /\ IsExample =>
         /\ Len(last.value) = 2
         /\ last.value[1].document_id = "a" /\ last.value[1].combined_score = 80000
         /\ last.value[2].document_id = "b" /\ last.value[2].combined_score = 54000

\* _combine_results ran on the example
C8_Witness == IsExample /\ last.raised = "none"

\* the result list with the score of every result of document doc_id raised
RaiseScore(results, doc_id, delta) ==
  [p \in 1..Len(results) |->
     IF results[p].document_id = doc_id
       THEN [results[p] EXCEPT !.score = @ + delta]
       ELSE results[p]] \o <<>>

\* the whole fused ranking, nothing cut off
FusedRanking(bm25_results, vector_results, weights) ==
  _combine_results(bm25_results, vector_results, weights,
                   Len(bm25_results) + Len(vector_results)).value

CombinedOf(ranking, doc_id) ==
  LET r == CHOOSE r \in 1..Len(ranking) : ranking[r].document_id = doc_id
  IN  ranking[r].combined_score

\* no entry of the ranking stands below an entry with a lower combined_score
RankedByCombined(ranking) ==
  \A i, j \in 1..Len(ranking) :
    i < j => ranking[i].combined_score >= ranking[j].combined_score

ResultIds(results) == {results[p].document_id : p \in 1..Len(results)}

ScoreRaises == {1, 20000}

\* C9: fusion is monotone: with fixed positive weights, raising one
\* document's lexical or semantic score (all else equal) strictly raises
\* its combined_score, and the fused ranking never places it below a
\* document whose combined_score is lower than its own.
C9_FusionMonotone ==
  ( /\ Returned("_combine_results")
    /\ last.args.weights.keyword[1] > 0
    /\ last.args.weights.semantic[1] > 0 )
  => LET b == last.args.bm25_results
         v == last.args.vector_results
         w == last.args.weights
         before == FusedRanking(b, v, w)
     IN  /\ RankedByCombined(before)
         /\ \A delta \in ScoreRaises :
              /\ \A doc_id \in ResultIds(b) :
                   LET after == FusedRanking(RaiseScore(b, doc_id, delta), v, w)
                   IN  /\ CombinedOf(after, doc_id) > CombinedOf(before, doc_id)
                       /\ RankedByCombined(after)
              /\ \A doc_id \in ResultIds(v) :
                   LET after == FusedRanking(b, RaiseScore(v, doc_id, delta), w)
                   IN  /\ CombinedOf(after, doc_id) > CombinedOf(before, doc_id)
                       /\ RankedByCombined(after)

\* a fusion with positive weights in which raising the lexical score of the
\* document ranked second moves it to the top
C9_Witness ==
  /\ Returned("_combine_results")
  /\ last.args.weights.keyword[1] > 0
  /\ last.args.weights.semantic[1] > 0
  /\ Len(last.value) = 2
  /\ last.value[2].document_id \in ResultIds(last.args.bm25_results)
  /\ last.value[1].combined_score > last.value[2].combined_score
  /\ FusedRanking(RaiseScore(last.args.bm25_results, last.value[2].document_id, 20000),
                  last.args.vector_results, last.args.weights)[1].document_id
       = last.value[2].document_id

\* the scores of the query of the last bm25_search on the index in use
LastScores == get_scores(bm25_index[1], _tokenize(last.args.query)) \o <<>>

Positive(scores) == {i \in 1..Len(scores) : scores[i] > 0}

\* the corpus indices a lexical search is to return: those with a positive
\* score by descending score, document i before document j of the same
\* score iff TieBefore(i, j), cut to top_k
RankedIndices(scores, top_k, TieBefore(_, _)) ==
  LET before(i, j) == \/ scores[i] > scores[j]
                      \/ scores[i] = scores[j] /\ TieBefore(i, j)
      rank(i) == 1 + Cardinality({j \in Positive(scores) : before(j, i)})
      n == Min(top_k, Cardinality(Positive(scores)))
  IN  [r \in 1..n |-> CHOOSE i \in Positive(scores) : rank(i) = r]

IsRanking(value, scores, top_k, TieBefore(_, _)) ==
  LET expected == RankedIndices(scores, top_k, TieBefore)
  IN  /\ Len(value) = Len(expected)
      /\ \A r \in 1..Len(expected) :
           value[r] = KeywordResult(documents, document_ids, scores, expected[r])

CorpusOrder(i, j) == i < j
ReverseCorpusOrder(i, j) == i > j

\* C10 as stated: bm25_search returns the documents with positive score
\* sorted by descending score and truncated to top_k; documents with equal
\* scores appear in their original corpus order.
C10_TiesInCorpusOrder ==
  (Returned("bm25_search") /\ bm25_index # None) =>
    IsRanking(last.value, LastScores, last.args.top_k, CorpusOrder)

\* C10 amended: bm25_search returns the documents with positive score
\* sorted by descending score and truncated to top_k; documents with equal
\* scores appear in the reverse of the order np.argsort gives them, which
\* is reverse corpus order when argsort keeps equal scores in index order.
C10_TiesInReversedArgsortOrder ==
  (Returned("bm25_search") /\ bm25_index # None) =>
    IF argsort_ties = "index_order"
      THEN IsRanking(last.value, LastScores, last.args.top_k, ReverseCorpusOrder)
      ELSE IsRanking(last.value, LastScores, last.args.top_k, CorpusOrder)

\* bm25_search returned two documents of equal score, the later one of the
\* corpus first
C10_Witness ==
  /\ Returned("bm25_search")
  /\ Len(last.value) = 2
  /\ last.value[1].score = last.value[2].score
  /\ last.value[1].document_id = document_ids[2]
  /\ last.value[2].document_id = document_ids[1]

\* the two texts have a token in common
SharesToken(document, query) ==
  SeqToSet(_tokenize(document)) \cap SeqToSet(_tokenize(query)) # {}

\* the scenario of the specification: the three documents d0, d1, d2 indexed
IsScenario ==
  /\ documents = <<Dcat, Ddog, Dpets>>
  /\ document_ids = <<"d0", "d1", "d2">>
  /\ bm25_index = IndexTable[documents]

\* C11: a corpus document that shares no token with the tokenized query
\* never appears in the results of bm25_search; in the scenario the query
\* "cat" returns d0 alone.
C11_NoOverlapNoMatch ==
  Returned("bm25_search") =>
    /\ \A p \in 1..Len(last.value) :
         SharesToken(last.value[p].document, last.args.query)
    /\ (IsScenario /\ last.args.query = Qcat /\ last.args.top_k >= 1) =>
         /\ Len(last.value) = 1
         /\ last.value[1].document_id = "d0"

\* what bm25_search(query, top_k) gives in the current state: the exception
\* or the results
SearchResult(query, top_k) ==
  bm25_search(bm25_index, documents, document_ids, argsort_ties, query, top_k)

\* everything bm25_search reads besides its arguments
SearchInputs == <<bm25_index, documents, document_ids, argsort_ties>>

\* C12: for a fixed corpus snapshot, query and top_k, two calls of
\* bm25_search return the same ordered sequence, whatever searches or
\* analyses ran in between: no step other than build_index changes what
\* bm25_search returns for any query and top_k, and what a call returned is
\* what the snapshot, the query and top_k determine.
C12_SearchDeterministic ==
  /\ [][last'.op # "build_index" =>
          \/ UNCHANGED SearchInputs
          \/ \A query \in HybridQueries : \A top_k \in TopKs :
               SearchResult(query, top_k)' = SearchResult(query, top_k)]_vars
  /\ [](last.op = "bm25_search" =>
          LET r == SearchResult(last.args.query, last.args.top_k)
          IN  last.raised = r.raised /\ last.value = r.value)

\* on a deployment with a key and a stored collection, a search returned
\* two documents of equal score
C12_Witness ==
  /\ Returned("bm25_search")
  /\ api_key_set
  /\ collection # {}
  /\ Len(last.value) = 2
  /\ last.value[1].score = last.value[2].score

\* the index was constructed from the documents now held
IndexOfDocuments ==
  /\ bm25_index # None
  /\ bm25_index[1].corpus_size = Len(documents)
  /\ \A i \in 1..Len(documents) :
       /\ bm25_index[1].doc_len[i] = Len(_tokenize(documents[i]))
       /\ DOMAIN bm25_index[1].doc_freqs[i] = SeqToSet(_tokenize(documents[i]))

\* C13: after any sequence of build_index calls the lexical snapshot is
\* exactly the documents and ids of the most recent completed build_index
\* call: a call that returns leaves its own documents and ids, with the
\* index constructed from them; a call that raises partway has not
\* completed and leaves the snapshot of the last completed call; nothing
\* else changes the snapshot; and every result of bm25_search is a document
\* of the current list with the id at the same position, never a document
\* of an earlier list (replacement, not merge).
C13_SnapshotOfLastCompletedBuild ==
  /\ [][last'.op = "build_index" =>
          IF last'.raised = "none"
            THEN /\ documents' = last'.args.documents
                 /\ document_ids' =
                      (IF last'.args.document_ids \in {None, Some(<<>>)}
                         THEN DefaultIds(Len(documents'))
                         ELSE last'.args.document_ids[1])
                 /\ IndexOfDocuments'
            ELSE UNCHANGED <<documents, document_ids, bm25_index>>]_vars
  /\ [][last'.op # "build_index" => UNCHANGED <<documents, document_ids, bm25_index>>]_vars
  /\ [](Returned("bm25_search") =>
          \A p \in 1..Len(last.value) :
            \E i \in 1..Len(documents) :
              /\ last.value[p].document = documents[i]
              /\ last.value[p].document_id = document_ids[i])

\* the result pairs a document of the current list with its id and with
\* the score this document has in an index of the current list
PairsOneSnapshot(result, query) ==
  /\ IndexTable[documents] # None
  /\ \E i \in 1..Len(documents) :
       /\ i <= Len(document_ids)
       /\ result.document = documents[i]
       /\ result.document_id = document_ids[i]
       /\ result.score = get_scores(IndexTable[documents][1], _tokenize(query))[i]

\* C14: build_index is atomic with respect to failure: also after a call
\* that raised partway, documents, document_ids and the BM25 index belong
\* to one and the same build call, so bm25_search never fails on an index
\* without a document and never pairs the scores of one snapshot with the
\* documents or ids of another.
C14_BuildIndexAtomic ==
  /\ bm25_index # None =>
       (IndexOfDocuments /\ Len(document_ids) = Len(documents))
  /\ last.op = "bm25_search" =>
       /\ last.raised = "none"
       /\ \A p \in 1..Len(last.value) : PairsOneSnapshot(last.value[p], last.args.query)

\* the ids are as many as the documents and pairwise distinct
IdsOneToOne ==
  /\ Len(document_ids) = Len(documents)
  /\ \A i, j \in 1..Len(document_ids) : i < j => document_ids[i] # document_ids[j]

\* C15: in every corpus snapshot the ids pair one-to-one with the
\* documents (same length, pairwise distinct), so every index bm25_search
\* selects has a document and an id (no IndexError) and no two results
\* share an id.
C15_IdsPairWithDocuments ==
  /\ IdsOneToOne
  /\ last.op = "bm25_search" =>
       /\ last.raised # "IndexError"
       /\ \A p, q \in 1..Len(last.value) :
            p < q => last.value[p].document_id # last.value[q].document_id

\* C16: every semantic result's score equals 1 - distance of the
\* corresponding hit of the embedding index, with no clamping (a distance
\* above 1 gives a negative score), and the hits keep their number and
\* their order.
C16_ScoreIsOneMinusDistance ==
  (last.op = "vector_search" /\ ~last.args.chroma.raised) =>
    LET hits == last.args.chroma
    IN  /\ last.raised = "none"
        /\ Len(last.value) = Len(hits.distances)
        /\ \A i \in 1..Len(last.value) :
             /\ last.value[i].score = 10000 - hits.distances[i]
             /\ hits.distances[i] > 10000 => last.value[i].score < 0
             /\ last.value[i].document = hits.documents[i]
             /\ last.value[i].document_id = hits.metadatas[i].filename

\* vector_search returned two results, the second with a negative score
C16_Witness ==
  /\ Returned("vector_search")
  /\ Len(last.value) = 2
  /\ last.args.chroma.distances = <<2000, 15000>>
  /\ last.value[1].score = 8000
  /\ last.value[2].score = -5000

\* positions i..j of s hold a maximal run of word characters
IsMaximalRun(s, i, j) ==
  /\ i <= j
  /\ \A k \in i..j : IsWordChar(s[k])
  /\ i = 1 \/ ~IsWordChar(s[i - 1])
  /\ j = Len(s) \/ ~IsWordChar(s[j + 1])

\* the maximal runs of more than 2 characters, as pairs of positions
LongRuns(s) ==
  {r \in (1..Len(s)) \X (1..Len(s)) : IsMaximalRun(s, r[1], r[2]) /\ r[2] - r[1] + 1 > 2}

\* the lowercased long runs of s, in text order
LoweredLongRuns(s) ==
  LET R == LongRuns(s)
      nth(n) == CHOOSE r \in R : Cardinality({q \in R : q[1] < r[1]}) = n - 1
  IN  [n \in 1..Cardinality(R) |->
         [k \in 1..(nth(n)[2] - nth(n)[1] + 1) |-> LowerChar(s[nth(n)[1] + k - 1])]]

ExpectedTokens ==
  Tabulated([text \in DocPool \cup {Dshort} \cup QueryPool |-> LoweredLongRuns(text) \o <<>>])

\* how often the token occurs in the sequence
Occurrences(tokens, token) == Cardinality({p \in 1..Len(tokens) : tokens[p] = token})

\* C17: tokenize returns, in text order, the lowercased maximal runs of
\* word characters that are longer than 2, and the same function is applied
\* to the documents at build_index, to the query in bm25_search and to the
\* query in the fallback analysis.
C17_TokenizeEverywhere ==
  /\ (last.op = "build_index" /\ last.raised # "ZeroDivisionError") =>
       /\ bm25_index # None
       /\ bm25_index[1].corpus_size = Len(documents)
       /\ \A i \in 1..Len(documents) :
            LET tokens == ExpectedTokens[documents[i]]
            IN  /\ _tokenize(documents[i]) = tokens
                /\ bm25_index[1].doc_len[i] = Len(tokens)
                /\ DOMAIN bm25_index[1].doc_freqs[i] = SeqToSet(tokens)
                /\ \A token \in SeqToSet(tokens) :
                     bm25_index[1].doc_freqs[i][token] = Occurrences(tokens, token)
  /\ (Returned("bm25_search") /\ bm25_index # None) =>
       LET tokens == ExpectedTokens[last.args.query]
           scores == get_scores(bm25_index[1], tokens) \o <<>>
       IN  /\ _tokenize(last.args.query) = tokens
           /\ \A p \in 1..Len(last.value) :
                \E i \in 1..Len(documents) :
                  last.value[p] = KeywordResult(documents, document_ids, scores, i)
           /\ bm25_index[1].corpus_size = Len(documents) =>
                Len(last.value) = Min(last.args.top_k, Cardinality(Positive(scores)))
  /\ (last.op = "analyze_query" /\ ClassifierUnavailable(last.args.llm)) =>
       /\ _tokenize(last.args.query) = ExpectedTokens[last.args.query]
       /\ last.value.keywords = ExpectedTokens[last.args.query]

\* with "The cat sat on the mat." indexed as five tokens, the fallback
\* analysis of "What is a loyal companion?" has the keywords what, loyal,
\* companion
C17_Witness ==
  /\ bm25_index # None
  /\ Len(documents) >= 1
  /\ documents[1] = Dcat
  /\ bm25_index[1].doc_len[1] = 5
  /\ last.op = "analyze_query"
  /\ last.args.query = Qwhat
  /\ last.value.keywords =
       << <<"w","h","a","t">>, <<"l","o","y","a","l">>,
          <<"c","o","m","p","a","n","i","o","n">> >>

PassagesOf(filename) ==
  {chunk.document : chunk \in {c \in collection : c.metadata.filename = filename}}

\* C19: every result of hybrid_search(query, top_k, filename = f) with a
\* document filter f comes from document f: no passage of another document
\* is returned.
C19_FilterConfinesResults ==
  (Returned("hybrid_search") /\ last.args.filename # None) =>
    \A r \in 1..Len(last.value) :
      last.value[r].document \in PassagesOf(last.args.filename[1])

\* the n most recent elements of the history, in insertion order
MostRecent(history, n) ==
  SubSeq(history, (IF Len(history) > n THEN Len(history) - n + 1 ELSE 1), Len(history))

\* C20: after any sequence of add_interaction calls on a buffer built with
\* max_history = N, for any N >= 0, every session holds at most N
\* interactions, and they are the N most recently added ones of the session
\* in insertion order: each call leaves the N most recent of the session's
\* history followed by the new interaction, and leaves the other sessions.
C20_HistoryBounded ==
  /\ [](\A s \in DOMAIN conversations : Len(conversations[s]) <= max_history)
  /\ [][last'.op = "add_interaction" =>
          LET s == last'.args.session_id
              new == [id             |-> clock',
                      timestamp      |-> clock',
                      user_message   |-> last'.args.user_message,
                      ai_response    |-> last'.args.ai_response,
                      context_chunks |-> ListOrEmpty(last'.args.context_chunks)]
          IN  /\ s \in DOMAIN conversations'
              /\ conversations'[s] = MostRecent(Append(HistoryOf(s), new), max_history)
              /\ \A t \in DOMAIN conversations' \ {s} :
                   t \in DOMAIN conversations /\ conversations'[t] = conversations[t]]_vars


\* the concurrent search has ended, with results or with an exception
SearchEnded == tasks.search # None /\ tasks.search[1].pc = "done"

\* a result whose text has no token of the query: not the text that was scored
TornResult(search) ==
  \E p \in 1..Len(search.value) : ~SharesToken(search.value[p].document, search.query)

\* C21: build_index is not safe to run concurrently with bm25_search.  A
\* search during which no build_index call was running never returns a text
\* other than the one scored and never indexes out of range; whenever it does
\* either, a build overlapped it (and the witness shows that it happens).
C21_TornOnlyWhenOverlapping ==
  (SearchEnded /\ ~tasks.search[1].overlapped) =>
    /\ tasks.search[1].raised = "none"
    /\ ~TornResult(tasks.search[1])

\* an overlapped search has returned a text that was not the one scored
C21_Witness ==
  /\ SearchEnded
  /\ tasks.search[1].overlapped
  /\ tasks.search[1].raised = "none"
  /\ TornResult(tasks.search[1])

\* an overlapped search has indexed out of range
C21_IndexOutOfRange ==
  /\ SearchEnded
  /\ tasks.search[1].overlapped
  /\ tasks.search[1].raised = "IndexError"


\* the first and the last result of a list that carries the id
FirstWith(results, doc_id) ==
  results[CHOOSE p \in 1..Len(results) :
            /\ results[p].document_id = doc_id
            /\ \A q \in 1..(p - 1) : results[q].document_id # doc_id]

LastWith(results, doc_id) ==
  results[CHOOSE p \in 1..Len(results) :
            /\ results[p].document_id = doc_id
            /\ \A q \in (p + 1)..Len(results) : results[q].document_id # doc_id]

HybridFields ==
  {"document", "document_id", "combined_score", "bm25_score", "vector_score", "search_type"}

\* C22: in a fused record the lexical score (bm25_score) is the score of the
\* document's lexical result, 0 if it has none; the semantic score
\* (vector_score) is the score of its semantic result, 0 if it has none; a
\* semantic result for an id of the lexical pass leaves the lexical score
\* and the text of the lexical pass; every record is tagged hybrid and
\* carries the combined, the lexical and the semantic score.
C22_ScoresOfTheTwoPasses ==
  Returned("_combine_results") =>
    \A r \in 1..Len(last.value) :
      LET entry == last.value[r]
          b == last.args.bm25_results
          v == last.args.vector_results
          lexical  == entry.document_id \in ResultIds(b)
          semantic == entry.document_id \in ResultIds(v)
      IN  /\ DOMAIN entry = HybridFields
          /\ entry.search_type = "hybrid"
          /\ entry.bm25_score =
               IF lexical THEN FirstWith(b, entry.document_id).score ELSE 0
          /\ entry.vector_score =
               IF semantic THEN LastWith(v, entry.document_id).score ELSE 0
          /\ lexical => entry.document = FirstWith(b, entry.document_id).document
          /\ (~lexical) => entry.document = FirstWith(v, entry.document_id).document

\* a fused record of a document that both passes returned, with the lexical
\* score and text of the one and the semantic score of the other
C22_Witness ==
  /\ Returned("_combine_results")
  /\ \E r \in 1..Len(last.value) :
       /\ last.value[r].document_id \in ResultIds(last.args.bm25_results)
       /\ last.value[r].document_id \in ResultIds(last.args.vector_results)
       /\ last.value[r].bm25_score = 20000
       /\ last.value[r].vector_score = 9000
       /\ last.value[r].document = Dcat


\* when an id was first inserted: the lexical results come first, then the
\* semantic ones
InsertionRank(b, v, doc_id) ==
  IF doc_id \in ResultIds(b)
    THEN CHOOSE p \in 1..Len(b) : b[p] = FirstWith(b, doc_id)
                                   /\ \A q \in 1..(p - 1) : b[q].document_id # doc_id
    ELSE Len(b) + (CHOOSE p \in 1..Len(v) : v[p].document_id = doc_id
                                   /\ \A q \in 1..(p - 1) : v[q].document_id # doc_id)

\* the combined score of an id, from the two result lists
CombinedOfId(b, v, weights, doc_id) ==
  (IF doc_id \in ResultIds(b) THEN FirstWith(b, doc_id).score ELSE 0) * weights.keyword[1]
    + (IF doc_id \in ResultIds(v) THEN LastWith(v, doc_id).score ELSE 0) * weights.semantic[1]

\* id1 stands before id2 in the fused ranking
RanksBefore(b, v, weights, id1, id2) ==
  \/ CombinedOfId(b, v, weights, id1) > CombinedOfId(b, v, weights, id2)
  \/ /\ CombinedOfId(b, v, weights, id1) = CombinedOfId(b, v, weights, id2)
     /\ InsertionRank(b, v, id1) < InsertionRank(b, v, id2)

\* C23: the fused list is sorted by descending combined_score; entries with
\* equal combined_score stand in first-insertion order, the lexical entries
\* in lexical order before the semantic-only entries in semantic order; the
\* list is the first top_k entries of that ranking.
C23_SortedStableCut ==
  Returned("_combine_results") =>
    LET b == last.args.bm25_results
        v == last.args.vector_results
        w == last.args.weights
        out == last.value
        ids == ResultIds(b) \cup ResultIds(v)
    IN  /\ Len(out) = Min(last.args.top_k, Cardinality(ids))
        /\ \A r \in 1..Len(out) :
             out[r].combined_score = CombinedOfId(b, v, w, out[r].document_id)
        /\ \A i, j \in 1..Len(out) :
             i < j => RanksBefore(b, v, w, out[i].document_id, out[j].document_id)
        /\ \A doc_id \in ids \ ResultIds(out) :
             \A r \in 1..Len(out) : RanksBefore(b, v, w, out[r].document_id, doc_id)

\* a lexical entry and a semantic-only entry with equal combined_score are
\* returned, the lexical one first
C23_Witness ==
  /\ Returned("_combine_results")
  /\ Len(last.value) = 2
  /\ last.value[1].combined_score = last.value[2].combined_score
  /\ last.value[1].document_id \in ResultIds(last.args.bm25_results)
  /\ last.value[2].document_id \notin ResultIds(last.args.bm25_results)


\* how many results of the list carry the id
CountWith(results, doc_id) ==
  Cardinality({p \in 1..Len(results) : results[p].document_id = doc_id})

\* C26: each document_id appears at most once in the fused output; when
\* several semantic results carry one document_id, the single entry has the
\* text of the first result inserted for that id and the semantic score of
\* the last semantic result with that id.
C26_OneEntryPerId ==
  Returned("_combine_results") =>
    LET b == last.args.bm25_results
        v == last.args.vector_results
        out == last.value
    IN  /\ \A i, j \in 1..Len(out) : out[i].document_id = out[j].document_id => i = j
        /\ \A r \in 1..Len(out) :
             CountWith(v, out[r].document_id) > 1 =>
               /\ out[r].vector_score = LastWith(v, out[r].document_id).score
               /\ out[r].document =
                    IF out[r].document_id \in ResultIds(b)
                      THEN FirstWith(b, out[r].document_id).document
                      ELSE FirstWith(v, out[r].document_id).document

\* two chunks of one file with different texts and scores were fused into
\* one entry: the text of the first, the score of the second
C26_Witness ==
  /\ Returned("_combine_results")
  /\ last.args.bm25_results = <<>>
  /\ Len(last.args.vector_results) = 2
  /\ last.args.vector_results[1].document_id = last.args.vector_results[2].document_id
  /\ last.args.vector_results[1].document # last.args.vector_results[2].document
  /\ last.args.vector_results[1].score # last.args.vector_results[2].score
  /\ Len(last.value) = 1
  /\ last.value[1].document = last.args.vector_results[1].document
  /\ last.value[1].vector_score = last.args.vector_results[2].score


\* the weights of the analysis of the query, as analyze_query gives them
AnalysisWeights(query, llm) == analyze_query(api_key_set, query, llm).value.search_weights[1]

\* C24: hybrid_search(query, top_k) asks the lexical and the semantic search
\* for exactly 2*top_k candidates each, fuses them with the weights of the
\* query analysis and returns the first top_k of the fused ranking; hence a
\* candidate of either search that stands within the first top_k of the
\* ranking by combined score is in the result.
C24_TwiceTopKCandidates ==
  Returned("hybrid_search") =>
    LET query    == last.args.query
        top_k    == last.args.top_k
        lexical  == SearchResult(query, 2 * top_k).value
        semantic == vector_search(last.args.chroma)
        ranking  == FusedRanking(lexical, semantic, AnalysisWeights(query, last.args.llm))
    IN  /\ last.args.chroma \in ChromaOutcomes(collection, 2 * top_k, last.args.filename)
        /\ last.value = TopK(ranking, top_k)
        /\ \A r \in 1..Len(ranking) :
             r <= top_k => ranking[r].document_id \in ResultIds(last.value)

\* hybrid_search(query, 1) returned one record out of two lexical and two
\* semantic candidates
C24_Witness ==
  /\ Returned("hybrid_search")
  /\ last.args.top_k = 1
  /\ Len(SearchResult(last.args.query, 2).value) = 2
  /\ Len(vector_search(last.args.chroma)) = 2
  /\ Len(last.value) = 1


\* the four read operations of the engine
QueryOps == {"analyze_query", "bm25_search", "vector_search", "hybrid_search"}

\* C25: analyze_query, bm25_search, vector_search and hybrid_search leave
\* the engine's state unchanged (documents, document_ids, the BM25 index and
\* the TF-IDF matrix), whether they return or raise, and keep nothing of the
\* query: the only thing a call changes is the value handed to its caller.
C25_QueriesChangeNothing ==
  [][(last.op = "none" /\ last'.op \in QueryOps) =>
       /\ UNCHANGED <<documents, document_ids, bm25_index, tfidf_matrix>>
       /\ UNCHANGED <<env, rest>>]_vars

\* a hybrid search has returned results from an engine with an index
C25_Witness ==
  /\ Returned("hybrid_search")
  /\ bm25_index # None
  /\ documents # <<>>
  /\ \E r \in 1..Len(last.value) : last.value[r].bm25_score > 0
  /\ \E r \in 1..Len(last.value) : last.value[r].vector_score > 0


\* build_index raises on the chunks: BM25Okapi or the TF-IDF vectorizer fails
RebuildFails(chunks) == IndexTable[chunks] = None \/ MatrixTable[chunks] = None

\* C27: after every successful add_document the lexical snapshot (documents
\* and document_ids) holds exactly the chunks of the file just added, with
\* the ids <filename>_<i>, while the embedding index has the chunks of that
\* file added to all it held before and never loses a chunk; add_document
\* never raises, and it returns False only when nothing was stored, so a
\* failure of the lexical rebuild does not make it fail.
C27_SnapshotOfLastUpload ==
  [][/\ collection \subseteq collection'
     /\ (last.op = "none" /\ last'.op = "add_document") =>
          /\ last'.raised = "none"
          /\ last'.value = Some(TRUE) =>
               /\ documents' = FileChunks(last'.args.filename)
               /\ document_ids' = ChunkIds(last'.args.filename)
               /\ collection' = collection \cup ChunksOf(last'.args.filename)
          /\ last'.value # Some(TRUE) =>
               UNCHANGED <<documents, document_ids, bm25_index, tfidf_matrix, collection>>]_vars

\* b.pdf was added after a.pdf: build_index raised on its only chunk, the
\* call returned True, the snapshot is the chunk of b.pdf and the embedding
\* index holds the chunks of both files
C27_Witness ==
  /\ Returned("add_document")
  /\ last.value = Some(TRUE)
  /\ last.args.filename = "b.pdf"
  /\ RebuildFails(last.args.chunks)
  /\ documents = <<Dstop>>
  /\ document_ids = <<"b.pdf_0">>
  /\ collection = ChunksOf("a.pdf") \cup ChunksOf("b.pdf")


\* the other sessions are the same before and after the step
OthersUntouched(s) ==
  \A t \in (DOMAIN conversations \cup DOMAIN conversations') \ {s} :
    /\ t \in DOMAIN conversations
    /\ t \in DOMAIN conversations'
    /\ conversations'[t] = conversations[t]

\* C28: the sessions of the buffer are isolated: add_interaction(s) and
\* clear_conversation(s) change session s only; clear_conversation on an
\* unknown session changes nothing; after clear_conversation(s) the session
\* is absent from get_all_sessions, which lists exactly the sessions held,
\* and reads as empty.
C28_SessionsIsolated ==
  /\ [][/\ last'.op = "add_interaction" => OthersUntouched(last'.args.session_id)
        /\ last'.op = "clear_conversation" =>
             /\ OthersUntouched(last'.args.session_id)
             /\ last'.args.session_id \notin DOMAIN conversations'
             /\ last'.args.session_id \notin DOMAIN conversations =>
                  UNCHANGED <<conversations, max_history, clock>>
        /\ last'.op \in {"get_all_sessions", "get_recent_context"} =>
             UNCHANGED <<conversations, max_history, clock>>]_vars
  /\ [](Returned("get_all_sessions") => SeqToSet(last.value) = DOMAIN conversations)
  /\ []((Returned("get_recent_context") /\ last.args.session_id \notin DOMAIN conversations)
          => last.value = <<>>)

\* session s1 was cleared after both sessions had got an interaction: s2
\* still holds its own
C28_Witness ==
  /\ last.op = "clear_conversation"
  /\ last.args.session_id = "s1"
  /\ max_history = 2
  /\ clock = 2
  /\ DOMAIN conversations = {"s2"}
  /\ Len(conversations["s2"]) = 1
  /\ conversations["s2"][1].id = 1


\* the calls that returned True with a request time inside the window of
\* window_seconds that begins at from
AllowedInWindow(from) ==
  {i \in 1..Len(limiter.returned) :
     /\ limiter.returned[i].allowed
     /\ from <= limiter.returned[i].now
     /\ limiter.returned[i].now < from + WindowSeconds}

\* C29: for any interleaving of threads calling is_allowed with the same
\* key, max_requests and window_seconds, the calls that return True and
\* whose request times fall inside any one window of window_seconds number
\* at most max_requests; a call that returns False records no request.
C29_AtMostMaxRequestsPerWindow ==
  /\ [](\A from \in 0..MaxTime : Cardinality(AllowedInWindow(from)) <= MaxRequests)
  /\ [][(Len(limiter'.returned) > Len(limiter.returned)
           /\ ~limiter'.returned[Len(limiter'.returned)].allowed)
          => /\ Len(limiter'.requests) <= Len(limiter.requests)
             /\ SeqToSet(limiter'.requests) \subseteq SeqToSet(limiter.requests)]_vars


\* position p (from 0) of the text lies in an occurrence of the chunk
CoveredBy(text, chunk, p) ==
  \E from \in 0..(Len(text) - Len(chunk)) :
    /\ SubSeq(text, from + 1, from + Len(chunk)) = chunk
    /\ from <= p /\ p < from + Len(chunk)

\* C30: chunk_text terminates for every text whenever
\* 0 <= chunk_overlap < chunk_size: the start position strictly advances on
\* every iteration, also when the chunk end is pulled back to a sentence
\* end, so the loop ends; and the chunks returned together cover every
\* non-blank part of the text.
C30_ChunkTextTerminates ==
  /\ [][(chunker.pc = "loop" /\ chunker'.pc # "idle") =>
          /\ chunker'.raised = "none"
          /\ chunker'.start > chunker.start]_vars
  /\ (chunker.pc = "loop") ~> (chunker.pc = "done")
  /\ []((chunker.pc = "done" /\ chunker.raised = "none") =>
          \A p \in 0..(Len(chunker.text) - 1) :
            At(chunker.text, p) # " " =>
              \E c \in 1..Len(chunker.chunks) :
                CoveredBy(chunker.text, chunker.chunks[c], p))

=============================================================================
